---- MODULE Spec2Model ----
(***************************************************************************)
(* Reserve-update -> cycle re-evaluation -> broadcast pipeline of the AMM  *)
(* arbitrage detector (DatabaseManager, EventSubscriber,                   *)
(* ArbitrageCalculator).  One action is one run-to-completion segment of   *)
(* the JavaScript event loop: the code between two awaits.                 *)
(*                                                                         *)
(* The repository holds two copies of ArbitrageCalculator that differ in   *)
(* getAmountOutWithFee; the variable build says which copy is running.     *)
(***************************************************************************)
EXTENDS Integers, Sequences, FiniteSets, TLC

\* ------------------------------------------------------------------ bounds
\* Number of Sync logs the subscriptions deliver in one behaviour.
MaxLogs == 3
\* Decimal places of one ether in parseEther (18 in ethers), scaled down so
\* that every product stays inside TLC's integers.
EtherDecimals == 2
\* BATCH_SIZE (800 in the program), scaled down to the model's pool count.
BATCH_SIZE == 2
\* eventCache max (100_000 in the program), scaled down.
CacheMax == 2
\* eventQueue concurrency (5 in the program), scaled down.
Concurrency == 2
\* Number of cached hashes whose TTL runs out in one behaviour.
MaxExpiries == 1

\* Number of close and error notifications of the subscription sockets in
\* one behaviour.
MaxNotifications == 2
\* Number of Sync logs delivered in one behaviour of LifecycleSpec and of
\* BroadcastSpec.
MaxLifecycleLogs == 1

\* --------------------------------------------------------------- constants
START_AMOUNT == 1
\* FEE_PERCENT = 0.5 is kept in tenths of a percent: 5 / 1000.
FEE_PERMILLE == 5

START_CURRENCY == "WETH"

\* The observers that connect to the WebSocket server.
Observers == {"o1", "o2"}

\* proc.exitCode while the process runs.
NoExit == -1

\* ----------------------------------------------------------------- strings
\* String.prototype.toLowerCase / toLocaleLowerCase on the addresses of the
\* model: an address is written in lower case ("0xp1") or with the mixed-case
\* checksum that ethers gives log.address ("0xP1").
ToLowerCase(s) ==
  CASE s = "0xP1" -> "0xp1"
    [] s = "0xP2" -> "0xp2"
    [] s = "0xP3" -> "0xp3"
    [] s = "0xP9" -> "0xp9"
    [] OTHER -> s

\* ----------------------------------------------------------------- catalog
\* Rows of the three relations of defi.db, as db.all returns them.
TokenInfoRows ==
  << [address |-> "0xweth", symbol |-> "WETH", decimals |-> 2],
     [address |-> "0xusdc", symbol |-> "USDC", decimals |-> 1],
     [address |-> "0xdai",  symbol |-> "DAI",  decimals |-> 2] >>

LPInfoRows ==
  << [address |-> "0xp1", token1_address |-> "0xweth", token2_address |-> "0xusdc"],
     [address |-> "0xp2", token1_address |-> "0xusdc", token2_address |-> "0xdai"],
     [address |-> "0xp3", token1_address |-> "0xdai",  token2_address |-> "0xweth"] >>

\* Route.path after JSON.parse: [[target, [lp]], ...]; a pair is <<target, lp>>.
\* r4 has a step through a pool that LPInfo does not hold; r5 names pool 0xp1
\* with the mixed-case checksum.
RouteRows ==
  << [id |-> "r1", path |-> << <<"0xusdc", "0xp1">>, <<"0xdai", "0xp2">>, <<"0xweth", "0xp3">> >>],
     [id |-> "r2", path |-> << <<"0xdai", "0xp3">>, <<"0xweth", "0xp3">> >>],
     [id |-> "r3", path |-> << <<"0xdai", "0xp3">>, <<"0xusdc", "0xp2">>, <<"0xweth", "0xp1">> >>],
     [id |-> "r4", path |-> << <<"0xusdc", "0xp1">>, <<"0xweth", "0xp9">> >>],
     [id |-> "r5", path |-> << <<"0xusdc", "0xP1">>, <<"0xdai", "0xp2">>, <<"0xweth", "0xp3">> >>] >>

Range(s) == { s[i] : i \in 1..Len(s) }

\* Map.has: Map.get(k) gives undefined exactly when the key is absent.
MapHas(m, k) == k \in DOMAIN m

\* Map.set
MapSet(m, k, v) == [x \in (DOMAIN m) \cup {k} |-> IF x = k THEN v ELSE m[x]]

\* fetchData, tokens: tokenMap.set(token.address.toLocaleLowerCase(), token)
tokenMap ==
  [a \in { ToLowerCase(TokenInfoRows[i].address) : i \in 1..Len(TokenInfoRows) } |->
     LET i == CHOOSE j \in 1..Len(TokenInfoRows) :
                 /\ ToLowerCase(TokenInfoRows[j].address) = a
                 /\ \A k \in (j+1)..Len(TokenInfoRows) :
                        ToLowerCase(TokenInfoRows[k].address) # a
     IN TokenInfoRows[i]]

\* fetchData, pools: lpMap.set(lp.address.toLocaleLowerCase(),
\*                             {...lp, reserve1: 0n, reserve2: 0n})
InitialLPMap ==
  [a \in { ToLowerCase(LPInfoRows[i].address) : i \in 1..Len(LPInfoRows) } |->
     LET i == CHOOSE j \in 1..Len(LPInfoRows) :
                 /\ ToLowerCase(LPInfoRows[j].address) = a
                 /\ \A k \in (j+1)..Len(LPInfoRows) :
                        ToLowerCase(LPInfoRows[k].address) # a
     IN [address |-> LPInfoRows[i].address,
         token1_address |-> LPInfoRows[i].token1_address,
         token2_address |-> LPInfoRows[i].token2_address,
         reserve1 |-> 0, reserve2 |-> 0]]

\* fetchData, routes: routeInfo = pathArray.map(([target, [lp]]) => ({target, lp}))
RouteInfoOf(path) == [i \in 1..Len(path) |-> [target |-> path[i][1], lp |-> path[i][2]]]

routeMap ==
  [id \in { RouteRows[i].id : i \in 1..Len(RouteRows) } |->
     LET i == CHOOSE j \in 1..Len(RouteRows) :
                 /\ RouteRows[j].id = id
                 /\ \A k \in (j+1)..Len(RouteRows) : RouteRows[k].id # id
     IN [id |-> id, routeInfo |-> RouteInfoOf(RouteRows[i].path)]]

\* The pushes of route ids that fetchData makes, in order: one <<lp, id>> per
\* step of every route (routeInfo.forEach(({lp}) => ... push(route.id))).
RECURSIVE StepPushes(_, _, _)
StepPushes(id, routeInfo, i) ==
  IF i > Len(routeInfo) THEN << >>
  ELSE << <<routeInfo[i].lp, id>> >> \o StepPushes(id, routeInfo, i + 1)

RECURSIVE RoutePushes(_)
RoutePushes(i) ==
  IF i > Len(RouteRows) THEN << >>
  ELSE StepPushes(RouteRows[i].id, RouteInfoOf(RouteRows[i].path), 1)
         \o RoutePushes(i + 1)

\* this.lp2routeMapping.get(lp)!.push(route.id)
PushRouteId(ids, id) == Append(ids, id)

RECURSIVE IdsPushedFor(_, _)
IdsPushedFor(lp, pushes) ==
  IF pushes = << >> THEN << >>
  ELSE LET rest == IdsPushedFor(lp, SubSeq(pushes, 1, Len(pushes) - 1))
           last == pushes[Len(pushes)]
       IN IF last[1] = lp THEN PushRouteId(rest, last[2]) ELSE rest

\* fetchData: the key is the lp string of the path as stored (not lowercased).
lp2routeMapping ==
  LET pushes == RoutePushes(1)
  IN [lp \in { pushes[i][1] : i \in 1..Len(pushes) } |-> IdsPushedFor(lp, pushes)]

\* ----------------------------------------------------------------- pricing
\* ethers.parseEther(START_AMOUNT)
startAmount == START_AMOUNT * 10^EtherDecimals

\* FEE_PERCENT of the configuration the process was built with, in tenths of a
\* percent.  It never changes; constants.ts sets it to 0.5 (FEE_PERMILLE).
VARIABLE feePermille

\* Math.floor(Number(x) * feeMultiplier), feeMultiplier = 1 - FEE_PERCENT / 100.
\* For every x of the model (x < 3 000 000) the double product floors to the
\* same integer as the exact x * 995 / 1000; with FEE_PERCENT = 0 the
\* multiplier is 1 and the product is x.
FloorTimesFee(x) == (x * (1000 - feePermille)) \div 1000

\* A returned bigint, or the RangeError that a BigInt division by zero throws.
Returned(v) == [thrown |-> FALSE, value |-> v]
Thrown == [thrown |-> TRUE, value |-> 0]

\* getAmountOutWithFee of the copy that holds EventSubscriber:
\* denominator = adjustedReserveIn + amountInWithFee, divided unchecked.
getAmountOutWithFee(amountIn, reserveIn, reserveOut, decimalsIn, decimalsOut) ==
  IF reserveIn = 0 \/ reserveOut = 0 THEN Returned(0)
  ELSE LET adjustedAmountIn == (amountIn * 10^decimalsOut) \div 10^decimalsIn
           adjustedReserveIn == (reserveIn * 10^decimalsOut) \div 10^decimalsIn
           adjustedReserveOut == reserveOut
           amountInWithFee == FloorTimesFee(adjustedAmountIn)
           numerator == amountInWithFee * adjustedReserveOut
           denominator == adjustedReserveIn + amountInWithFee
       IN IF denominator = 0 THEN Thrown
          ELSE Returned(numerator \div denominator)

\* getAmountOutWithFee of the copy that holds WebSocketPool:
\* denominator = floor(adjustedReserveIn * fee) + adjustedAmountIn, checked.
getAmountOutWithFeeChecked(amountIn, reserveIn, reserveOut, decimalsIn, decimalsOut) ==
  IF reserveIn = 0 \/ reserveOut = 0 THEN Returned(0)
  ELSE LET adjustedAmountIn == (amountIn * 10^decimalsOut) \div 10^decimalsIn
           adjustedReserveIn == (reserveIn * 10^decimalsOut) \div 10^decimalsIn
           adjustedReserveOut == reserveOut
           amountInWithFee == FloorTimesFee(adjustedAmountIn)
           numerator == amountInWithFee * adjustedReserveOut
           denominator == FloorTimesFee(adjustedReserveIn) + adjustedAmountIn
       IN IF denominator = 0 THEN Returned(0)
          ELSE Returned(numerator \div denominator)

Builds == {"unchecked", "checked"}

AmountOut(b, amountIn, reserveIn, reserveOut, decimalsIn, decimalsOut) ==
  IF b = "unchecked"
  THEN getAmountOutWithFee(amountIn, reserveIn, reserveOut, decimalsIn, decimalsOut)
  ELSE getAmountOutWithFeeChecked(amountIn, reserveIn, reserveOut, decimalsIn, decimalsOut)

\* One hop of the for loop over routePath.routeInfo: st is
\* [currentAmount, pathDescription, thrown], lps the pool map read by the hop.
Hop(b, lps, pathItem, st) ==
  IF ~MapHas(lps, pathItem.lp) THEN st
  ELSE LET lpPool == lps[pathItem.lp]
       IN LET isToken1Target == pathItem.target = lpPool.token1_address
              tokenIn == IF isToken1Target THEN ToLowerCase(lpPool.token2_address)
                                           ELSE ToLowerCase(lpPool.token1_address)
              tokenOut == IF isToken1Target THEN ToLowerCase(lpPool.token1_address)
                                            ELSE ToLowerCase(lpPool.token2_address)
              reserveIn == IF isToken1Target THEN lpPool.reserve2 ELSE lpPool.reserve1
              reserveOut == IF isToken1Target THEN lpPool.reserve1 ELSE lpPool.reserve2
              tokenSymbolOut == IF MapHas(tokenMap, tokenOut)
                                THEN tokenMap[tokenOut].symbol ELSE "UNKNOWN"
              decimalsIn == IF MapHas(tokenMap, tokenIn)
                            THEN tokenMap[tokenIn].decimals ELSE 0
              decimalsOut == IF MapHas(tokenMap, tokenOut)
                             THEN tokenMap[tokenOut].decimals ELSE 0
              amountOut == AmountOut(b, st.currentAmount, reserveIn, reserveOut,
                                     decimalsIn, decimalsOut)
          IN [currentAmount |-> IF amountOut.thrown THEN st.currentAmount
                                                     ELSE amountOut.value,
              pathDescription |-> Append(st.pathDescription, tokenSymbolOut),
              thrown |-> amountOut.thrown]

\* The for loop: it ends at the first hop that throws.
RECURSIVE Hops(_, _, _, _, _)
Hops(b, lps, routeInfo, i, st) ==
  IF i > Len(routeInfo) \/ st.thrown THEN st
  ELSE Hops(b, lps, routeInfo, i + 1, Hop(b, lps, routeInfo[i], st))

\* Mutant of RouteCallback: the amount is not reset, the cycle is priced from
\* the amount that the callback before it left.
RouteCallbackCarried(b, lps, pathId, currentAmount) ==
  IF ~MapHas(routeMap, pathId)
  THEN [emits |-> FALSE, thrown |-> FALSE, pathId |-> pathId,
        pathDescription |-> << >>, rate |-> 0, currentAmount |-> currentAmount]
  ELSE LET routePath == routeMap[pathId]
       IN LET st == Hops(b, lps, routePath.routeInfo, 1,
                         [currentAmount |-> currentAmount,
                          pathDescription |-> << START_CURRENCY >>,
                          thrown |-> FALSE])
              profit == st.currentAmount - startAmount
          IN [emits |-> ~st.thrown, thrown |-> st.thrown, pathId |-> pathId,
              pathDescription |-> st.pathDescription, rate |-> profit,
              currentAmount |-> st.currentAmount]

\* The callback of routePathIds.map for one pathId.  It returns
\* [emits, thrown, event, currentAmount]: the RateUpdate it emitted, if any, and
\* the value it leaves in the variable currentAmount that the callbacks share.
\* rate is the profit in units of 10^-EtherDecimals ether
\* (Number(profit) / 10 ** 18 in the program).
RouteCallback(b, lps, pathId, currentAmount) ==
  IF ~MapHas(routeMap, pathId)
  THEN [emits |-> FALSE, thrown |-> FALSE, pathId |-> pathId,
        pathDescription |-> << >>, rate |-> 0, currentAmount |-> currentAmount]
  ELSE LET routePath == routeMap[pathId]
       IN LET st == Hops(b, lps, routePath.routeInfo, 1,
                         [currentAmount |-> startAmount,
                          pathDescription |-> << START_CURRENCY >>,
                          thrown |-> FALSE])
              profit == st.currentAmount - startAmount
          IN [emits |-> ~st.thrown, thrown |-> st.thrown, pathId |-> pathId,
              pathDescription |-> st.pathDescription, rate |-> profit,
              currentAmount |-> st.currentAmount]

\* routePathIds.map(async (pathId) => ...): no callback awaits, so map runs
\* them one after the other to their end; a callback that throws yields a
\* rejected promise and map goes on with the next pathId.
RECURSIVE MapRoutes(_, _, _, _, _)
MapRoutes(b, lps, routePathIds, i, currentAmount) ==
  IF i > Len(routePathIds) THEN << >>
  ELSE LET r == RouteCallback(b, lps, routePathIds[i], currentAmount)
       IN << r >> \o MapRoutes(b, lps, routePathIds, i + 1, r.currentAmount)

\* calculateArbitrageOpportunities(poolInfo) up to its await of Promise.all:
\* the outcomes of the callbacks, in the order of routePathIds.
calculateArbitrageOpportunities(b, lps, poolInfo) ==
  IF ~MapHas(lp2routeMapping, poolInfo.address) THEN << >>
  ELSE MapRoutes(b, lps, lp2routeMapping[poolInfo.address], 1, startAmount)

\* ----------------------------------------------------------------- inputs
\* viewPair on the chain: the reserves <<reserve0, reserve1>> of each pool.
ChainReserves ==
  [a \in {"0xp1", "0xp2", "0xp3"} |->
     CASE a = "0xp1" -> <<1000, 2000>>
       [] a = "0xp2" -> <<1000, 10000>>
       [] a = "0xp3" -> <<30000, 3000>>]

\* The Sync logs the subscriptions can deliver.  log.address carries the
\* checksum case; two logs of one transaction share its hash; a log with
\* decodable = FALSE is one for which parseLog returns null.
SyncLogs ==
  { [transactionHash |-> "0xt1", address |-> "0xP1",
     reserve0 |-> 1000, reserve1 |-> 2000, decodable |-> TRUE],
    [transactionHash |-> "0xt1", address |-> "0xP2",
     reserve0 |-> 1000, reserve1 |-> 5, decodable |-> TRUE],
    [transactionHash |-> "0xt2", address |-> "0xP3",
     reserve0 |-> 30000, reserve1 |-> 3000, decodable |-> TRUE],
    [transactionHash |-> "0xt3", address |-> "0xP9",
     reserve0 |-> 7, reserve1 |-> 7, decodable |-> TRUE],
    [transactionHash |-> "0xt3", address |-> "0xP1",
     reserve0 |-> 0, reserve1 |-> 0, decodable |-> FALSE] }

\* Reserve values of a pool whose two reserves are equal.
SymmetricReserves == {1, 10, 100, 1000, 10000, 1000000}

\* Sync logs of pool 0xp3 (DAI/WETH, both of 2 decimals, the only pool of
\* cycle r2: WETH -> DAI -> WETH) that report two equal reserves.
SymmetricLogs ==
  { [transactionHash |-> "0xt4", address |-> "0xP3",
     reserve0 |-> r, reserve1 |-> r, decodable |-> TRUE] : r \in SymmetricReserves }

\* The values of FEE_PERCENT that a build of the program is configured with:
\* no fee, and the 0.5 of constants.ts.
FeePermilles == {0, FEE_PERMILLE}

\* ------------------------------------------------- route builder (GT_DB)
MIN_PATH_LENGTH == 2
MAX_PATH_LENGTH == 5

\* CONFIG.ADDRESS_REGEX.test(s): the strings of the model that are "0x" and
\* 40 hexadecimal digits in either case; "bad" stands for any other string.
WellFormed ==
  { "0xweth", "0xusdc", "0xdai", "0xp1", "0xp2", "0xp3", "0xp4", "0xp5", "0xp6",
    "0xp9", "0xP1", "0xP2", "0xP3", "0xP9" }

AddressTest(s) == s \in WellFormed

\* s.toLowerCase().trim(): no string of the model has white space around it.
Normalize(s) == ToLowerCase(s)

\* isValidPathGroup(group): every item is [string matching ADDRESS_REGEX,
\* array].  An item of the model is <<token, liquidities>>.
isValidPathGroup(group) == \A i \in 1..Len(group) : AddressTest(group[i][1])

\* liquidities.filter(string).map(lowercase, trim).filter(ADDRESS_REGEX)
ValidLiquidities(liquidities) ==
  SelectSeq([k \in 1..Len(liquidities) |-> Normalize(liquidities[k])],
            LAMBDA lp : AddressTest(lp))

\* pathGroup.map(item => ... | null).filter(p => p !== null)
RECURSIVE ValidPaths(_)
ValidPaths(group) ==
  IF group = << >> THEN << >>
  ELSE LET token == Normalize(Head(group)[1])
           liquidities == ValidLiquidities(Head(group)[2])
           rest == ValidPaths(Tail(group))
       IN IF AddressTest(token) /\ liquidities # << >>
          THEN << [token |-> token, liquidities |-> liquidities] >> \o rest
          ELSE rest

\* helper(index, current) of cartesianProduct, index counted from 1; items is
\* what the for loop over arrays[index] has still to visit.
RECURSIVE Helper(_, _, _)
RECURSIVE HelperLoop(_, _, _, _)
Helper(arrays, index, current) ==
  IF index = Len(arrays) + 1 THEN << current >>
  ELSE HelperLoop(arrays, index, current, arrays[index])

HelperLoop(arrays, index, current, items) ==
  IF items = << >> THEN << >>
  ELSE Helper(arrays, index + 1, Append(current, Head(items)))
         \o HelperLoop(arrays, index, current, Tail(items))

\* cartesianProduct(arrays): the combinations in the order they are yielded.
cartesianProduct(arrays) ==
  IF Len(arrays) = 0 THEN << >> ELSE Helper(arrays, 1, << >>)

\* uniqueLPs.size === combination.length
UniqueLPs(combination) ==
  Cardinality({ combination[i] : i \in 1..Len(combination) }) = Len(combination)

\* generateValidRoutes(paths): the routes in the order they are yielded; a route
\* is paths.map(({token}, idx) => [token, [combination[idx]]]).
generateValidRoutes(paths) ==
  LET liquidityOptions == [i \in 1..Len(paths) |-> paths[i].liquidities]
      valid == SelectSeq(cartesianProduct(liquidityOptions),
                         LAMBDA combination :
                           /\ Len(combination) >= MIN_PATH_LENGTH
                           /\ Len(combination) <= MAX_PATH_LENGTH
                           /\ UniqueLPs(combination))
  IN [k \in 1..Len(valid) |->
        [idx \in 1..Len(paths) |-> << paths[idx].token, << valid[k][idx] >> >>]]

\* processPathGroup(pathGroup, lpSet, routeQueue, tokenPairs): the builder
\* after it.  paths and yielded are history: the validPaths of the group and
\* the routes the generator yielded for them.
processPathGroup(pathGroup, rb) ==
  LET validPaths == ValidPaths(pathGroup)
  IN IF Len(validPaths) < MIN_PATH_LENGTH
     THEN [rb EXCEPT !.paths = validPaths, !.yielded = << >>]
     ELSE [rb EXCEPT
             !.lpSet = @ \cup UNION { { validPaths[i].liquidities[k] :
                                          k \in 1..Len(validPaths[i].liquidities) } :
                                      i \in 1..Len(validPaths) },
             !.routeQueue = @ \o generateValidRoutes(validPaths),
             !.paths = validPaths,
             !.yielded = generateValidRoutes(validPaths)]

\* The liquidity lists of the items of the path groups of the model.
LiquidityLists ==
  { << >>, << "0xp1" >>, << "0xp2" >>, << "0xp1", "0xp2" >>, << "0xp2", "0xp3" >>,
    << "0xp1", "0xP1" >>, << "bad" >> }

\* A group of n items with one pool each, all different.
LongGroup(n) ==
  [i \in 1..n |->
     << IF i % 2 = 1 THEN "0xusdc" ELSE "0xweth",
        << << "0xp1", "0xp2", "0xp3", "0xp4", "0xp5", "0xp6" >>[i] >> >>]

\* The path groups of the file: up to three items with the lists above, a
\* group with a malformed token, and groups of four to six items.
PathGroups ==
  { << >> }
    \cup { << << "0xusdc", a >> >> : a \in LiquidityLists }
    \cup { << << "0xusdc", a >>, << "0xweth", b >> >> :
             a \in LiquidityLists, b \in LiquidityLists }
    \cup { << << "0xusdc", a >>, << "0xdai", b >>, << "0xweth", c >> >> :
             a \in LiquidityLists, b \in LiquidityLists, c \in LiquidityLists }
    \cup { << << "bad", << "0xp1" >> >>, << "0xweth", << "0xp2" >> >> >> }
    \cup { LongGroup(n) : n \in 4..6 }

\* The route builder before the file is read.
NoFile == [file |-> << >>, lpSet |-> {}, routeQueue |-> << >>,
           paths |-> << >>, yielded |-> << >>]

\* ------------------------------------------------------------------ state
VARIABLES
  build,        \* which copy of getAmountOutWithFee runs
  phase,        \* the await at which App.initialize stands: "new", "opened",
                \* "fetched", "closed", "hydrating", "subscribing", "subscribed"
  hydrateIndex, \* i of the batch loop of fetchInitialPoolReserves (0-based)
  lpMap,        \* DatabaseManager.lpMap
  eventCache,   \* EventSubscriber.eventCache: hashes, least recently used first
  queued,       \* eventQueue: the logs whose task has not started
  pending,      \* eventQueue: the number of started tasks not yet settled
  calls,        \* the calls of updateReservesAndCalculateArbitrage, in call order
  mutex,        \* ArbitrageCalculator.mutex: [locked, queue of waiting calls]
  emitted,      \* the arbitrageRateUpdated events, in emission order
  received,     \* history: the logs delivered to the provider.on callback
  handled,      \* history: the logs whose handleSyncEvent has run
  lost,         \* history: the hashes the cache evicted or let expire
  expired,      \* history: the hashes whose TTL ran out
  history,      \* history: the reserve writes and the emissions, in order
  app,          \* App: the catalog connection, the components constructed, the
                \* number of arbitrageRateUpdated listeners of the calculator
  activeProviders, \* EventSubscriber.activeProviders: the batch of each provider
  subscribeIndex,  \* i of the batch loop of subscribeToPoolsInBatches (0-based)
  broadcasts,   \* the messages passed to WebSocketManager.broadcast, in order
  viewPairCalls, \* history: the calls of viewPair, [batch, applied]
  connections,  \* every WebSocketProvider made by createBatchSubscription
  timers,       \* the pending setTimeout calls of scheduleReconnection: the
                \* addresses of each, in the order they were set
  proc,         \* the process: signal handlers, cleanup, exit code
  wss,          \* WebSocketManager.wss: "none", "listening", "closed"
  observers,    \* the observers of the WebSocket server and their sockets
  sent,         \* history: the calls of broadcast, [data, to, failed, states]
  routeBuilder  \* RouteService.processPaths: the path groups of the file not
                \* yet read, lpSet, routeQueue

vars == << build, feePermille, phase, hydrateIndex, lpMap, eventCache, queued, pending,
           calls, mutex, emitted, received, handled, lost, expired, history,
           app, activeProviders, subscribeIndex, broadcasts, viewPairCalls,
           connections, timers, proc, wss, observers, sent, routeBuilder >>

\* Array.from(lpMap.keys()): the keys in insertion order.
RECURSIVE KeysInOrder(_)
KeysInOrder(i) ==
  IF i > Len(LPInfoRows) THEN << >>
  ELSE LET k == ToLowerCase(LPInfoRows[i].address)
           rest == KeysInOrder(i + 1)
       IN IF \E j \in 1..(i - 1) : ToLowerCase(LPInfoRows[j].address) = k
          THEN rest ELSE << k >> \o rest

poolAddresses == KeysInOrder(1)

Min(a, b) == IF a < b THEN a ELSE b

\* --------------------------------------------------------------- startup
\* App.initialize: new DatabaseManager(), and openDatabase() has resolved.
OpenDatabase ==
  /\ phase = "new"
  /\ proc.state = "running"
  /\ app' = [app EXCEPT !.dbManager = TRUE, !.db = "open"]
  /\ phase' = "opened"
  /\ UNCHANGED << connections, timers, proc, wss, observers, sent,
                  build, feePermille, routeBuilder, activeProviders, subscribeIndex, broadcasts, viewPairCalls,
                  hydrateIndex, lpMap, eventCache, queued, pending, calls, mutex,
                  emitted, received, handled, lost, expired, history >>

\* DatabaseManager.fetchData: the three relations are read and the maps are
\* filled; no row is checked against another.  (tokenMap, routeMap and
\* lp2routeMapping do not change afterwards and are the definitions above.)
FetchData ==
  /\ phase = "opened"
  /\ proc.state = "running"
  /\ lpMap' = InitialLPMap
  /\ phase' = "fetched"
  /\ UNCHANGED << connections, timers, proc, wss, observers, sent,
                  build, feePermille, routeBuilder, app, activeProviders, subscribeIndex, broadcasts, viewPairCalls,
                  hydrateIndex, eventCache, queued, pending, calls, mutex,
                  emitted, received, handled, lost, expired, history >>

\* DatabaseManager.initialize: await db.close()
CloseDatabase ==
  /\ phase = "fetched"
  /\ proc.state = "running"
  /\ app' = [app EXCEPT !.db = "closed"]
  /\ phase' = "closed"
  /\ UNCHANGED << connections, timers, proc, wss, observers, sent,
                  build, feePermille, routeBuilder, activeProviders, subscribeIndex, broadcasts, viewPairCalls,
                  hydrateIndex, lpMap, eventCache, queued, pending, calls, mutex,
                  emitted, received, handled, lost, expired, history >>

\* Mutant of WireBroadcast: the listener is not registered.
WireNothing(a) == a

\* this.arbitrageCalculator.on(EVENT_NAME, msg => this.webSocketManager?.broadcast(msg))
WireBroadcast(a) == [a EXCEPT !.listeners = @ + 1]

\* this.cleanupCallbacks.push(cb)
PushCleanup(a, cb) == [a EXCEPT !.cleanupCallbacks = Append(@, cb)]

\* App.initialize after dbManager.initialize(): the calculator, the WebSocket
\* server, the listener and the subscriber are made in this order without an
\* await, each cleanup callback is pushed right after its component is made,
\* and fetchInitialPoolReserves runs up to its first viewPair.
ConstructComponents ==
  /\ phase = "closed"
  /\ proc.state = "running"
  /\ app' = PushCleanup(
              [WireBroadcast(
                 PushCleanup([app EXCEPT !.arbitrageCalculator = TRUE,
                                         !.webSocketManager = TRUE],
                             "webSocketManager.close"))
                 EXCEPT !.eventSubscriber = TRUE],
              "eventSubscriber.shutdown")
  /\ wss' = "listening"
  /\ phase' = "hydrating"
  /\ UNCHANGED << connections, timers, proc, observers, sent,
                  build, feePermille, routeBuilder, activeProviders, subscribeIndex, broadcasts, viewPairCalls,
                  hydrateIndex, lpMap, eventCache, queued, pending, calls, mutex,
                  emitted, received, handled, lost, expired, history >>

\* ------------------------------------------------------------- hydration
\* Mutant of BatchAt: every slice is one address too long.
BatchAtOverlapping(i) ==
  SubSeq(poolAddresses, i + 1, Min(i + BATCH_SIZE + 1, Len(poolAddresses)))

\* poolAddresses.slice(i, i + BATCH_SIZE), i 0-based
BatchAt(i) == SubSeq(poolAddresses, i + 1, Min(i + BATCH_SIZE, Len(poolAddresses)))

\* The loop over j of one batch: lpInfo.reserve1 = reservesArray[2j],
\* lpInfo.reserve2 = reservesArray[2j + 1], in place.  Reading an index past
\* the end of the Result throws, which leaves the loop with the pools before
\* j already written.
RECURSIVE ApplyReserves(_, _, _, _)
ApplyReserves(lps, batch, reservesArray, j) ==
  IF j > Len(batch) \/ 2 * j > Len(reservesArray) THEN lps
  ELSE LET address == batch[j]
           next == IF MapHas(lps, address)
                   THEN [lps EXCEPT ![address].reserve1 = reservesArray[2 * j - 1],
                                    ![address].reserve2 = reservesArray[2 * j]]
                   ELSE lps
       IN ApplyReserves(next, batch, reservesArray, j + 1)

\* The number of pools of the batch that the loop wrote.
Applied(batch, reservesArray) == Min(Len(batch), Len(reservesArray) \div 2)

RECURSIVE ViewPair(_)
ViewPair(batch) ==
  IF batch = << >> THEN << >>
  ELSE ChainReserves[Head(batch)] \o ViewPair(Tail(batch))

\* One iteration of the batch loop of fetchInitialPoolReserves: the call of
\* viewPair throws, or it returns n values (2 per pool when all is well) and
\* the loop applies them until it ends or throws; a throw is caught and logged.
HydrateBatch ==
  /\ phase = "hydrating"
  /\ proc.state = "running"
  /\ \E ok \in BOOLEAN :
       LET batch == BatchAt(hydrateIndex)
       IN \E n \in 0..(2 * Len(batch)) :
            LET reservesArray == SubSeq(ViewPair(batch), 1, n)
            IN /\ lpMap' = IF ok THEN ApplyReserves(lpMap, batch, reservesArray, 1)
                                 ELSE lpMap
               /\ viewPairCalls' = Append(viewPairCalls,
                    [batch |-> batch,
                     applied |-> IF ok THEN Applied(batch, reservesArray) ELSE 0])
  /\ hydrateIndex' = hydrateIndex + BATCH_SIZE
  /\ phase' = IF hydrateIndex + BATCH_SIZE < Len(poolAddresses)
              THEN "hydrating" ELSE "subscribing"
  /\ UNCHANGED << connections, timers, proc, wss, observers, sent,
                  build, feePermille, routeBuilder, app, activeProviders, subscribeIndex, broadcasts,
                  eventCache, queued, pending, calls, mutex, emitted,
                  received, handled, lost, expired, history >>

\* ---------------------------------------------------------- subscription
\* A WebSocketProvider as createBatchSubscription leaves it: pushed onto
\* activeProviders (tracked), with the Sync listener of its filter (listening)
\* and with the close and error handlers set on its socket.  destroyed,
\* notifications and afterShutdown are history: destroy() was called, the number
\* of close and error notifications of its socket, and whether shutdown() had
\* run when it was made.
NewProvider(addresses) ==
  [addresses |-> addresses, listening |-> TRUE, tracked |-> TRUE, open |-> TRUE,
   destroyed |-> FALSE, notifications |-> 0,
   afterShutdown |-> "eventSubscriber.shutdown" \in Range(proc.ran)]

\* createBatchSubscription(addresses)
createBatchSubscription(addresses) ==
  /\ activeProviders' = Append(activeProviders, addresses)
  /\ connections' = Append(connections, NewProvider(addresses))

\* One iteration of the batch loop of subscribeToPoolsInBatches:
\* createBatchSubscription(batch) makes a WebSocketProvider, pushes it onto
\* activeProviders and installs the Sync filter of the batch.
SubscribeBatch ==
  /\ phase = "subscribing"
  /\ proc.state = "running"
  /\ createBatchSubscription(BatchAt(subscribeIndex))
  /\ subscribeIndex' = subscribeIndex + BATCH_SIZE
  /\ phase' = IF subscribeIndex + BATCH_SIZE < Len(poolAddresses)
              THEN "subscribing" ELSE "subscribed"
  /\ UNCHANGED << timers, proc, wss, observers, sent,
                  build, feePermille, routeBuilder, app, broadcasts, viewPairCalls,
                  hydrateIndex, lpMap, eventCache, queued, pending, calls, mutex,
                  emitted, received, handled, lost, expired, history >>

\* ------------------------------------------------------------- LRU cache
Remove(seq, x) == SelectSeq(seq, LAMBDA y : y # x)

\* eventCache.get(eventId): a hit, which also makes the key the most recent.
CacheHit(cache, eventId) == eventId \in Range(cache)
CacheAfterGet(cache, eventId) ==
  IF CacheHit(cache, eventId) THEN Append(Remove(cache, eventId), eventId) ELSE cache

\* eventCache.set(eventId, true) with max = CacheMax: a new key evicts the
\* least recently used one when the cache is full.
CacheAfterSet(cache, eventId) ==
  IF CacheHit(cache, eventId) THEN Append(Remove(cache, eventId), eventId)
  ELSE IF Len(cache) >= CacheMax THEN Append(Tail(cache), eventId)
  ELSE Append(cache, eventId)

\* ------------------------------------------------------------------ mutex
\* Mutant of MutexAcquire: the caller never waits.
MutexAcquireNoWait(m, c) ==
  [mutex |-> [locked |-> TRUE, queue |-> m.queue], granted |-> TRUE]

\* Mutex.acquire of async-mutex: the caller takes the lock at once when it is
\* free, and waits in FIFO order otherwise.
MutexAcquire(m, c) ==
  IF ~m.locked
  THEN [mutex |-> [locked |-> TRUE, queue |-> m.queue], granted |-> TRUE]
  ELSE [mutex |-> [locked |-> TRUE, queue |-> Append(m.queue, c)], granted |-> FALSE]

\* release(): the lock passes to the first waiting call (next), or is free.
MutexRelease(m) ==
  IF m.queue = << >>
  THEN [mutex |-> [locked |-> FALSE, queue |-> << >>], next |-> 0]
  ELSE [mutex |-> [locked |-> TRUE, queue |-> Tail(m.queue)], next |-> Head(m.queue)]

\* Mutant of ReleaseInFinally: release() only at the end of the try block.
ReleaseOnSuccess(m, rejected) ==
  IF rejected THEN [mutex |-> m, next |-> 0] ELSE MutexRelease(m)

\* The finally block of updateReservesAndCalculateArbitrage: release() runs
\* whether the try block threw (rejected) or not.
ReleaseInFinally(m, rejected) == MutexRelease(m)

\* ---------------------------------------------------------------- handlers
\* The value of poolInfo when lpMap.get(lpAddress) is undefined.
NoPool == [address |-> "", token1_address |-> "", token2_address |-> "",
           reserve1 |-> 0, reserve2 |-> 0]

\* Mutant of PoolFound: the test if (poolInfo) is left out.
PoolAlwaysFound(lps, lpAddress) == TRUE

\* if (poolInfo), poolInfo = lpMap.get(lpAddress)
PoolFound(lps, lpAddress) == MapHas(lps, lpAddress)

\* updateReservesAndCalculateArbitrage up to its await of mutex.acquire():
\* the call reads poolInfo and asks for the lock.  i is the log it comes from.
updateReservesAndCalculateArbitrage(i, lpAddress, amount0, amount1) ==
  LET c == Len(calls) + 1
      known == PoolFound(lpMap, lpAddress)
      acq == MutexAcquire(mutex, c)
  IN /\ calls' = Append(calls,
                   [log |-> i, lpAddress |-> lpAddress,
                    amount0 |-> amount0, amount1 |-> amount1,
                    known |-> known,
                    poolInfo |-> IF MapHas(lpMap, lpAddress) THEN lpMap[lpAddress]
                                                             ELSE NoPool,
                    pc |-> IF acq.granted THEN "acquired" ELSE "queued",
                    evaluated |-> << >>, rejected |-> FALSE])
     /\ mutex' = acq.mutex

\* Mutant of CacheAfterMiss: the hash is checked but never stored.
CacheNotSet(cache, eventId) == cache

\* The cache after a miss: this.eventCache.set(eventId, true).
CacheAfterMiss(cache, eventId) == CacheAfterSet(cache, eventId)

\* Mutant of handleSyncEvent: the result of parseLog is not looked at.
handleSyncEventUnparsed(i, log) ==
  LET eventId == log.transactionHash
  IN IF CacheHit(eventCache, eventId)
     THEN /\ eventCache' = CacheAfterGet(eventCache, eventId)
          /\ handled' = Append(handled, [log |-> i, passed |-> FALSE, call |-> 0])
          /\ UNCHANGED << calls, mutex, lost >>
     ELSE /\ eventCache' = CacheAfterMiss(eventCache, eventId)
          /\ lost' = lost \cup (Range(eventCache) \ Range(eventCache'))
          /\ handled' = Append(handled,
                               [log |-> i, passed |-> TRUE, call |-> Len(calls) + 1])
          /\ updateReservesAndCalculateArbitrage(
               i, ToLowerCase(log.address), log.reserve0, log.reserve1)

\* handleSyncEvent(log) for the i-th received log: it has no await, so it runs
\* to its end in one step.
handleSyncEvent(i, log) ==
  LET eventId == log.transactionHash
  IN IF CacheHit(eventCache, eventId)
     THEN /\ eventCache' = CacheAfterGet(eventCache, eventId)
          /\ handled' = Append(handled, [log |-> i, passed |-> FALSE, call |-> 0])
          /\ UNCHANGED << calls, mutex, lost >>
     ELSE /\ eventCache' = CacheAfterMiss(eventCache, eventId)
          /\ lost' = lost \cup (Range(eventCache) \ Range(eventCache'))
          /\ IF ~log.decodable
             THEN /\ handled' = Append(handled, [log |-> i, passed |-> TRUE, call |-> 0])
                  /\ UNCHANGED << calls, mutex >>
             ELSE /\ handled' = Append(handled,
                                  [log |-> i, passed |-> TRUE, call |-> Len(calls) + 1])
                  /\ updateReservesAndCalculateArbitrage(
                       i, ToLowerCase(log.address), log.reserve0, log.reserve1)

\* The filter {address: batch} of a provider lets the logs of the pools of
\* its batch through; a log of a pool that no batch holds stands for one that
\* the endpoint delivers against the filter.
Delivers(providers, log) ==
  \/ \E k \in 1..Len(providers) : ToLowerCase(log.address) \in Range(providers[k])
  \/ /\ providers # << >>
     /\ ToLowerCase(log.address) \notin Range(poolAddresses)

\* The batches of the providers that can deliver a log: their Sync listener is
\* in place and their socket is open.
RECURSIVE ListeningFrom(_, _)
ListeningFrom(conns, k) ==
  IF k > Len(conns) THEN << >>
  ELSE (IF conns[k].listening /\ conns[k].open THEN << conns[k].addresses >>
                                               ELSE << >>)
         \o ListeningFrom(conns, k + 1)

Listening(conns) == ListeningFrom(conns, 1)

\* provider.on(filter, log => this.eventQueue.add(() => this.handleSyncEvent(log))):
\* the task starts at once while fewer than Concurrency tasks are pending.
OnLogFrom(logs) ==
  /\ proc.state = "running"
  /\ Len(received) < MaxLogs
  /\ pending < Concurrency
  /\ \E log \in logs :
       /\ Delivers(Listening(connections), log)
       /\ received' = Append(received, log)
       /\ handleSyncEvent(Len(received) + 1, log)
  /\ pending' = pending + 1
  /\ UNCHANGED << connections, timers, proc, wss, observers, sent,
                  build, feePermille, routeBuilder, app, activeProviders, subscribeIndex, broadcasts, viewPairCalls,
                  phase, hydrateIndex, lpMap, queued, emitted, expired,
                  history >>

OnLogStart == OnLogFrom(SyncLogs)

\* ... and waits in the queue otherwise.
OnLogEnqueue ==
  /\ proc.state = "running"
  /\ Len(received) < MaxLogs
  /\ pending >= Concurrency
  /\ \E log \in SyncLogs :
       /\ Delivers(Listening(connections), log)
       /\ received' = Append(received, log)
  /\ queued' = Append(queued, Len(received) + 1)
  /\ UNCHANGED << connections, timers, proc, wss, observers, sent,
                  build, feePermille, routeBuilder, app, activeProviders, subscribeIndex, broadcasts, viewPairCalls,
                  phase, hydrateIndex, lpMap, eventCache, pending, calls,
                  mutex, emitted, handled, lost, expired, history >>

\* The promise of a started task settles (handleSyncEvent does not await the
\* call it made): the queue starts the next waiting task, if any.
TaskSettledNext ==
  /\ pending > 0
  /\ queued # << >>
  /\ queued' = Tail(queued)
  /\ handleSyncEvent(Head(queued), received[Head(queued)])
  /\ UNCHANGED << connections, timers, proc, wss, observers, sent,
                  build, feePermille, routeBuilder, app, activeProviders, subscribeIndex, broadcasts, viewPairCalls,
                  phase, hydrateIndex, lpMap, pending, emitted, received,
                  expired, history >>

TaskSettledIdle ==
  /\ pending > 0
  /\ queued = << >>
  /\ pending' = pending - 1
  /\ UNCHANGED << connections, timers, proc, wss, observers, sent,
                  build, feePermille, routeBuilder, app, activeProviders, subscribeIndex, broadcasts, viewPairCalls,
                  phase, hydrateIndex, lpMap, eventCache, queued, calls,
                  mutex, emitted, received, handled, lost, expired, history >>

\* The step of handled at which the cached hash h was set.
SetTime(h) ==
  CHOOSE k \in 1..Len(handled) :
    /\ handled[k].passed
    /\ received[handled[k].log].transactionHash = h
    /\ \A j \in (k + 1)..Len(handled) :
          ~(handled[j].passed /\ received[handled[j].log].transactionHash = h)

\* The TTL of a cached hash runs out: every entry has the same TTL (300 000 ms,
\* counted from its set), so the entry set first is the first to expire.
Expire ==
  /\ Cardinality(expired) < MaxExpiries
  /\ \E h \in Range(eventCache) \ expired :
       /\ \A g \in Range(eventCache) : SetTime(h) <= SetTime(g)
       /\ eventCache' = Remove(eventCache, h)
       /\ lost' = lost \cup {h}
       /\ expired' = expired \cup {h}
  /\ UNCHANGED << connections, timers, proc, wss, observers, sent,
                  build, feePermille, routeBuilder, app, activeProviders, subscribeIndex, broadcasts, viewPairCalls,
                  phase, hydrateIndex, lpMap, queued, pending, calls, mutex,
                  emitted, received, handled, history >>

\* ------------------------------------------------------- critical section
\* Mutant of TempPool: only reserve1 is replaced.
TempPoolReserve1Only(poolInfo, amount0, amount1) ==
  [poolInfo EXCEPT !.reserve1 = amount0]

\* Mutant of TempPool: the amounts are added to the reserves of the pool.
TempPoolAdd(poolInfo, amount0, amount1) ==
  [poolInfo EXCEPT !.reserve1 = @ + amount0, !.reserve2 = @ + amount1]

\* Mutant of TempPool: the two tokens of the pool change places as well.
TempPoolSwapped(poolInfo, amount0, amount1) ==
  [poolInfo EXCEPT !.reserve1 = amount0, !.reserve2 = amount1,
                   !.token1_address = poolInfo.token2_address,
                   !.token2_address = poolInfo.token1_address]

\* const tempPool = {...poolInfo}; tempPool.reserve1 = BigInt(amount0);
\* tempPool.reserve2 = BigInt(amount1)
TempPool(poolInfo, amount0, amount1) ==
  [poolInfo EXCEPT !.reserve1 = amount0, !.reserve2 = amount1]

\* The reserves of every pool, as a pricing run reads them.
ReservesOf(lps) == [a \in DOMAIN lps |-> << lps[a].reserve1, lps[a].reserve2 >>]

\* this.emit("arbitrageRateUpdated", {pathId, pathDescription, rate}) for the
\* callbacks that reached it.  call and seen are history: the call that
\* emitted the event and the reserves its pricing read.
RECURSIVE EventsOf(_, _, _)
EventsOf(c, outcomes, seen) ==
  IF outcomes = << >> THEN << >>
  ELSE LET o == Head(outcomes)
           rest == EventsOf(c, Tail(outcomes), seen)
       IN IF o.emits
          THEN << [call |-> c, pathId |-> o.pathId,
                   pathDescription |-> o.pathDescription, rate |-> o.rate,
                   seen |-> seen] >> \o rest
          ELSE rest

\* Mutant of EmitAll: the events of a call overtake the earlier ones.
EmitAllFirst(sofar, events) == events \o sofar

\* EventEmitter.emit calls the listener at once, so the events reach the
\* listeners in the order of emission.
EmitAll(sofar, events) == sofar \o events

\* JSON.stringify({type: EVENT_NAME, ...message}): the members of the object in
\* the order of their keys, as <<key, value>>.  A key that the spread repeats
\* keeps its first place and takes the later value.
EVENT_NAME == "arbitrageRateUpdated"

Stringify(message) ==
  << <<"type", EVENT_NAME>>, <<"pathId", message.pathId>>,
     <<"pathDescription", message.pathDescription>>, <<"rate", message.rate>> >>

\* client.readyState of an observer's socket on the server.  "BROKEN" stands
\* for a socket whose connection has failed while the close event of the
\* socket has not been dispatched yet: its readyState is still OPEN.
ReadyState(st) == IF st = "BROKEN" THEN "OPEN" ELSE st

\* this.wss.clients: the sockets of the observers that have connected and
\* whose close event has not been dispatched.
Clients(obs) == { o \in DOMAIN obs : obs[o] \in {"OPEN", "BROKEN", "CLOSING"} }

\* Mutant of Recipients: the readyState of a client is not looked at.
RecipientsAllClients(obs) == Clients(obs)

\* this.wss.clients.forEach(client => { if (client.readyState === WebSocket.OPEN)
\* client.send(data) }): the clients that send is called on.
Recipients(obs) == { o \in Clients(obs) : ReadyState(obs[o]) = "OPEN" }

\* WebSocketManager.broadcast(message).  send has no callback and sits in no
\* try block: a send on a failed connection is lost without a trace.  to,
\* failed and states are history.
Broadcast(obs, message) ==
  [data |-> Stringify(message),
   to |-> Recipients(obs),
   failed |-> { o \in Recipients(obs) : obs[o] = "BROKEN" },
   states |-> obs]

BroadcastAll(obs, messages) ==
  [k \in 1..Len(messages) |-> Broadcast(obs, messages[k])]

\* The listener of App, once it is registered: every event goes to
\* webSocketManager.broadcast as {pathId, pathDescription, rate}.
Deliver(a, events) ==
  IF a.listeners = 0 THEN << >>
  ELSE [k \in 1..Len(events) |->
          [pathId |-> events[k].pathId,
           pathDescription |-> events[k].pathDescription,
           rate |-> events[k].rate]]

\* The continuation of a call that holds the lock, for a known pool: the try
\* block up to the await of Promise.all.  lpMap.set stores both reserves, then
\* every route of the pool is priced and emitted in the same step.
EnterKnown(c) ==
  /\ calls[c].pc = "acquired"
  /\ calls[c].known
  /\ LET tempPool == TempPool(calls[c].poolInfo, calls[c].amount0, calls[c].amount1)
         lps == MapSet(lpMap, calls[c].lpAddress, tempPool)
         outcomes == calculateArbitrageOpportunities(build, lps, tempPool)
         events == EventsOf(c, outcomes, ReservesOf(lps))
     IN /\ lpMap' = lps
        /\ emitted' = EmitAll(emitted, events)
        /\ broadcasts' = broadcasts \o Deliver(app, events)
        /\ sent' = sent \o BroadcastAll(observers, Deliver(app, events))
        /\ history' = history \o << [kind |-> "write", call |-> c] >>
                              \o [k \in 1..Len(events) |-> [kind |-> "emit", call |-> c]]
        /\ calls' = [calls EXCEPT
                       ![c].pc = "awaiting",
                       ![c].evaluated = [k \in 1..Len(outcomes) |-> outcomes[k].pathId],
                       ![c].rejected = \E k \in 1..Len(outcomes) : outcomes[k].thrown]
  /\ UNCHANGED << connections, timers, proc, wss, observers,
                  build, feePermille, routeBuilder, app, activeProviders, subscribeIndex, viewPairCalls,
                  phase, hydrateIndex, eventCache, queued, pending, mutex,
                  received, handled, lost, expired >>

\* The calls after a release that passed the lock to next (0: to nobody).
AfterRelease(cs, c, pc, next) ==
  [k \in 1..Len(cs) |->
     IF k = c THEN [cs[k] EXCEPT !.pc = pc]
     ELSE IF k = next THEN [cs[k] EXCEPT !.pc = "acquired"]
     ELSE cs[k]]

\* The same continuation for an unknown pool: the try block does nothing and
\* finally releases the lock in the same step.
EnterUnknown(c) ==
  /\ calls[c].pc = "acquired"
  /\ ~calls[c].known
  /\ LET rel == ReleaseInFinally(mutex, FALSE)
     IN /\ mutex' = rel.mutex
        /\ calls' = AfterRelease(calls, c, "done", rel.next)
  /\ UNCHANGED << connections, timers, proc, wss, observers, sent,
                  build, feePermille, routeBuilder, app, activeProviders, subscribeIndex, broadcasts, viewPairCalls,
                  phase, hydrateIndex, lpMap, eventCache, queued, pending,
                  emitted, received, handled, lost, expired, history >>

\* The continuation after the await of Promise.all: it resolved, or it
\* rejected with the error of the first callback that threw; finally releases
\* the lock and the call returns or fails.
Leave(c) ==
  /\ calls[c].pc = "awaiting"
  /\ LET rel == ReleaseInFinally(mutex, calls[c].rejected)
     IN /\ mutex' = rel.mutex
        /\ calls' = AfterRelease(calls, c,
                                 IF calls[c].rejected THEN "failed" ELSE "done",
                                 rel.next)
  /\ UNCHANGED << connections, timers, proc, wss, observers, sent,
                  build, feePermille, routeBuilder, app, activeProviders, subscribeIndex, broadcasts, viewPairCalls,
                  phase, hydrateIndex, lpMap, eventCache, queued, pending,
                  emitted, received, handled, lost, expired, history >>

\* ------------------------------------------------------------ reconnection
\* scheduleReconnection(addresses): setTimeout(() => createBatchSubscription(
\* addresses), RECONNECT_INTERVAL).  The handle of the timer is not kept.
scheduleReconnection(ts, addresses) == Append(ts, addresses)

\* The close and error notifications so far, over all sockets.
RECURSIVE NotificationsFrom(_, _)
NotificationsFrom(conns, k) ==
  IF k > Len(conns) THEN 0
  ELSE conns[k].notifications + NotificationsFrom(conns, k + 1)

\* provider.websocket.onerror(error) of provider k: the error is logged and the
\* reconnection of its addresses is scheduled; the provider stays as it is.
SocketError(k) ==
  /\ proc.state = "running"
  /\ connections[k].open
  /\ NotificationsFrom(connections, 1) < MaxNotifications
  /\ timers' = scheduleReconnection(timers, connections[k].addresses)
  /\ connections' = [connections EXCEPT ![k].notifications = @ + 1]
  /\ UNCHANGED << build, feePermille, routeBuilder, phase, hydrateIndex, lpMap, eventCache, queued, pending,
                  calls, mutex, emitted, received, handled, lost, expired,
                  history, app, activeProviders, subscribeIndex, broadcasts,
                  viewPairCalls, proc, wss, observers, sent >>

\* provider.websocket.close(code, reason) of provider k, called by the socket
\* library when the close frame of the peer arrives.  close is the function
\* that createBatchSubscription assigned: it logs and schedules the
\* reconnection, and the method that closes the socket does not run.
SocketCloseCalled(k) ==
  /\ proc.state = "running"
  /\ connections[k].open
  /\ NotificationsFrom(connections, 1) < MaxNotifications
  /\ timers' = scheduleReconnection(timers, connections[k].addresses)
  /\ connections' = [connections EXCEPT ![k].notifications = @ + 1]
  /\ UNCHANGED << build, feePermille, routeBuilder, phase, hydrateIndex, lpMap, eventCache, queued, pending,
                  calls, mutex, emitted, received, handled, lost, expired,
                  history, app, activeProviders, subscribeIndex, broadcasts,
                  viewPairCalls, proc, wss, observers, sent >>

\* The connection of provider k is lost: the socket closes and its close
\* event is dispatched.  createBatchSubscription sets no listener of the close
\* event (it assigns websocket.close, not websocket.onclose), so nothing runs.
SocketClosed(k) ==
  /\ proc.state = "running"
  /\ connections[k].open
  /\ NotificationsFrom(connections, 1) < MaxNotifications
  /\ connections' = [connections EXCEPT ![k].open = FALSE,
                                        ![k].notifications = @ + 1]
  /\ UNCHANGED << build, feePermille, routeBuilder, phase, hydrateIndex, lpMap, eventCache, queued, pending,
                  calls, mutex, emitted, received, handled, lost, expired,
                  history, app, activeProviders, subscribeIndex, broadcasts,
                  viewPairCalls, timers, proc, wss, observers, sent >>

\* The timer set first fires (every timer has the same delay):
\* await this.createBatchSubscription(addresses).
Reconnect ==
  /\ proc.state = "running"
  /\ timers # << >>
  /\ createBatchSubscription(Head(timers))
  /\ timers' = Tail(timers)
  /\ UNCHANGED << build, feePermille, routeBuilder, phase, hydrateIndex, lpMap, eventCache, queued, pending,
                  calls, mutex, emitted, received, handled, lost, expired,
                  history, app, subscribeIndex, broadcasts, viewPairCalls,
                  proc, wss, observers, sent >>

\* ---------------------------------------------------------------- shutdown
\* cleanupProviders: removeAllListeners() and destroy() on every provider of
\* activeProviders; activeProviders = [] follows.
cleanupProviders(conns) ==
  [k \in 1..Len(conns) |->
     IF conns[k].tracked
     THEN [conns[k] EXCEPT !.listening = FALSE, !.tracked = FALSE,
                           !.destroyed = TRUE]
     ELSE conns[k]]

\* destroy() of a WebSocketProvider calls the close method of its socket,
\* which is the function that createBatchSubscription assigned: every
\* destroyed provider schedules the reconnection of its addresses, and its
\* socket stays open.
RECURSIVE TimersOfDestroy(_, _, _)
TimersOfDestroy(ts, conns, k) ==
  IF k > Len(conns) THEN ts
  ELSE TimersOfDestroy(IF conns[k].tracked
                       THEN scheduleReconnection(ts, conns[k].addresses)
                       ELSE ts,
                       conns, k + 1)

\* Mutant of CallbacksRun: cleanup calls no callback.
CallbacksRunNone(cbs) == << >>

\* App.cleanup: Promise.all(this.cleanupCallbacks.map(cb => cb())).  map calls
\* the callbacks in the order they were pushed, and none of them awaits before
\* its work is done: they all run in the step that calls cleanup.
CallbacksRun(cbs) == cbs

\* app.cleanup() up to its await, for App as a; failed says that the catch
\* block of main is the caller.
cleanup(a, failed) ==
  LET ran == CallbacksRun(a.cleanupCallbacks)
      closes == "webSocketManager.close" \in Range(ran)
      shuts == "eventSubscriber.shutdown" \in Range(ran)
  IN /\ wss' = IF closes THEN "closed" ELSE wss
     /\ connections' = IF shuts THEN cleanupProviders(connections) ELSE connections
     /\ activeProviders' = IF shuts THEN << >> ELSE activeProviders
     /\ timers' = IF shuts THEN TimersOfDestroy(timers, connections, 1) ELSE timers
     /\ proc' = [proc EXCEPT !.state = "cleaning", !.failed = failed, !.ran = ran,
                             !.lockedAtClose = closes /\ mutex.locked]

\* The steps at which initialize() can throw, by the await it stands at, and
\* App as the throw leaves it: "new" openDatabase(), "opened" fetchData(),
\* "fetched" db.close(), "closed" either new WebSocketManager(port) or the
\* statements of fetchInitialPoolReserves before its loop, "subscribing" new
\* ethers.WebSocketProvider(url).  The loop of fetchInitialPoolReserves catches
\* what is thrown inside it.
FailureSteps ==
  CASE phase = "new" -> { [app EXCEPT !.dbManager = TRUE] }
    [] phase = "opened" -> { app }
    [] phase = "fetched" -> { app }
    [] phase = "closed" ->
         { [app EXCEPT !.arbitrageCalculator = TRUE],
           PushCleanup(
             [WireBroadcast(
                PushCleanup([app EXCEPT !.arbitrageCalculator = TRUE,
                                        !.webSocketManager = TRUE],
                            "webSocketManager.close"))
                EXCEPT !.eventSubscriber = TRUE],
             "eventSubscriber.shutdown") }
    [] phase = "subscribing" -> { app }
    [] OTHER -> {}

\* initialize() rejects: the catch block of main logs the error and calls
\* app.cleanup().
InitializeFails ==
  /\ proc.state = "running"
  /\ \E a \in FailureSteps :
       /\ phase' = "failed"
       /\ app' = a
       /\ cleanup(a, TRUE)
  /\ UNCHANGED << build, feePermille, routeBuilder, hydrateIndex, lpMap, eventCache, queued, pending, calls,
                  mutex, emitted, received, handled, lost, expired, history,
                  subscribeIndex, broadcasts, viewPairCalls, observers, sent >>

\* initialize() has resolved: main registers the handlers of SIGINT and SIGTERM.
InitializeResolves ==
  /\ proc.state = "running"
  /\ phase = "subscribed"
  /\ ~proc.signalHandlers
  /\ proc' = [proc EXCEPT !.signalHandlers = TRUE]
  /\ UNCHANGED << build, feePermille, routeBuilder, phase, hydrateIndex, lpMap, eventCache, queued, pending,
                  calls, mutex, emitted, received, handled, lost, expired,
                  history, app, activeProviders, subscribeIndex, broadcasts,
                  viewPairCalls, connections, timers, wss, observers, sent >>

\* SIGINT or SIGTERM with the handler of main in place: it logs and calls
\* app.cleanup().
SignalHandled ==
  /\ proc.state = "running"
  /\ proc.signalHandlers
  /\ cleanup(app, FALSE)
  /\ UNCHANGED << build, feePermille, routeBuilder, phase, hydrateIndex, lpMap, eventCache, queued, pending,
                  calls, mutex, emitted, received, handled, lost, expired,
                  history, app, subscribeIndex, broadcasts, viewPairCalls,
                  observers, sent >>

\* SIGINT or SIGTERM before main has registered its handlers: the signal
\* terminates the process.
SignalUnhandled ==
  /\ proc.state = "running"
  /\ ~proc.signalHandlers
  /\ proc' = [proc EXCEPT !.state = "killed"]
  /\ UNCHANGED << build, feePermille, routeBuilder, phase, hydrateIndex, lpMap, eventCache, queued, pending,
                  calls, mutex, emitted, received, handled, lost, expired,
                  history, app, activeProviders, subscribeIndex, broadcasts,
                  viewPairCalls, connections, timers, wss, observers, sent >>

\* await app.cleanup() has resolved: process.exit(1) in the catch block,
\* process.exit(0) in a signal handler.
Exit ==
  /\ proc.state = "cleaning"
  /\ proc' = [proc EXCEPT !.state = "exited",
                          !.exitCode = IF proc.failed THEN 1 ELSE 0]
  /\ UNCHANGED << build, feePermille, routeBuilder, phase, hydrateIndex, lpMap, eventCache, queued, pending,
                  calls, mutex, emitted, received, handled, lost, expired,
                  history, app, activeProviders, subscribeIndex, broadcasts,
                  viewPairCalls, connections, timers, wss, observers, sent >>

\* --------------------------------------------------------------- observers
\* An observer connects to the WebSocket server: its socket joins wss.clients.
ObserverConnects(o) ==
  /\ proc.state = "running"
  /\ wss = "listening"
  /\ observers[o] = "none"
  /\ observers' = [observers EXCEPT ![o] = "OPEN"]
  /\ UNCHANGED << build, feePermille, routeBuilder, phase, hydrateIndex, lpMap, eventCache, queued, pending,
                  calls, mutex, emitted, received, handled, lost, expired,
                  history, app, activeProviders, subscribeIndex, broadcasts,
                  viewPairCalls, connections, timers, proc, wss, sent >>

\* The connection of an observer fails; the server has not noticed it yet.
ObserverBreaks(o) ==
  /\ proc.state = "running"
  /\ observers[o] = "OPEN"
  /\ observers' = [observers EXCEPT ![o] = "BROKEN"]
  /\ UNCHANGED << build, feePermille, routeBuilder, phase, hydrateIndex, lpMap, eventCache, queued, pending,
                  calls, mutex, emitted, received, handled, lost, expired,
                  history, app, activeProviders, subscribeIndex, broadcasts,
                  viewPairCalls, connections, timers, proc, wss, sent >>

\* The close frame of an observer arrives: its socket is CLOSING.
ObserverCloses(o) ==
  /\ proc.state = "running"
  /\ observers[o] = "OPEN"
  /\ observers' = [observers EXCEPT ![o] = "CLOSING"]
  /\ UNCHANGED << build, feePermille, routeBuilder, phase, hydrateIndex, lpMap, eventCache, queued, pending,
                  calls, mutex, emitted, received, handled, lost, expired,
                  history, app, activeProviders, subscribeIndex, broadcasts,
                  viewPairCalls, connections, timers, proc, wss, sent >>

\* The close event of an observer's socket: the server takes the socket out
\* of wss.clients.
ObserverClosed(o) ==
  /\ proc.state = "running"
  /\ observers[o] \in {"BROKEN", "CLOSING"}
  /\ observers' = [observers EXCEPT ![o] = "CLOSED"]
  /\ UNCHANGED << build, feePermille, routeBuilder, phase, hydrateIndex, lpMap, eventCache, queued, pending,
                  calls, mutex, emitted, received, handled, lost, expired,
                  history, app, activeProviders, subscribeIndex, broadcasts,
                  viewPairCalls, connections, timers, proc, wss, sent >>

\* ----------------------------------------------------------- specification
\* The state after construction of a process of build b configured with the
\* fee f, and of a route builder that is given the path groups of file.
InitOf(b, f, file) ==
  /\ build = b
  /\ feePermille = f
  /\ routeBuilder = [NoFile EXCEPT !.file = file]
  /\ phase = "new"
  /\ hydrateIndex = 0
  /\ lpMap = << >>
  /\ app = [db |-> "unopened", dbManager |-> FALSE, arbitrageCalculator |-> FALSE,
            webSocketManager |-> FALSE, eventSubscriber |-> FALSE, listeners |-> 0,
            cleanupCallbacks |-> << >>]
  /\ activeProviders = << >>
  /\ subscribeIndex = 0
  /\ broadcasts = << >>
  /\ viewPairCalls = << >>
  /\ connections = << >>
  /\ timers = << >>
  /\ proc = [signalHandlers |-> FALSE, state |-> "running", exitCode |-> NoExit,
             failed |-> FALSE, ran |-> << >>, lockedAtClose |-> FALSE]
  /\ wss = "none"
  /\ observers = [o \in Observers |-> "none"]
  /\ sent = << >>
  /\ eventCache = << >>
  /\ queued = << >>
  /\ pending = 0
  /\ calls = << >>
  /\ mutex = [locked |-> FALSE, queue |-> << >>]
  /\ emitted = << >>
  /\ received = << >>
  /\ handled = << >>
  /\ lost = {}
  /\ expired = {}
  /\ history = << >>

Init == \E b \in Builds : InitOf(b, FEE_PERMILLE, << >>)

Next ==
  \/ OpenDatabase
  \/ FetchData
  \/ CloseDatabase
  \/ ConstructComponents
  \/ HydrateBatch
  \/ SubscribeBatch
  \/ OnLogStart
  \/ OnLogEnqueue
  \/ TaskSettledNext
  \/ TaskSettledIdle
  \/ Expire
  \/ \E c \in 1..Len(calls) : EnterKnown(c)
  \/ \E c \in 1..Len(calls) : EnterUnknown(c)
  \/ \E c \in 1..Len(calls) : Leave(c)

Spec == Init /\ [][Next]_vars

\* Init with the fee of the configuration left open.
PricingInit == \E f \in FeePermilles : \E b \in Builds : InitOf(b, f, << >>)

\* The pricing of a pool with equal reserves: startup, then at most
\* MaxLifecycleLogs Sync logs of SymmetricLogs and their evaluation.
PricingNext ==
  \/ OpenDatabase
  \/ FetchData
  \/ CloseDatabase
  \/ ConstructComponents
  \/ HydrateBatch
  \/ SubscribeBatch
  \/ (Len(received) < MaxLifecycleLogs /\ OnLogFrom(SymmetricLogs))
  \/ TaskSettledIdle
  \/ \E c \in 1..Len(calls) : EnterKnown(c)
  \/ \E c \in 1..Len(calls) : Leave(c)

PricingSpec == PricingInit /\ [][PricingNext]_vars

\* pipeline.on('data', ({value}) => ...) of processFile: the next path group
\* of the file goes to processPathGroup if it is a valid one.
ProcessPathGroup ==
  /\ routeBuilder.file # << >>
  /\ LET value == Head(routeBuilder.file)
         rb == [routeBuilder EXCEPT !.file = Tail(@)]
     IN routeBuilder' = IF isValidPathGroup(value)
                        THEN processPathGroup(value, rb)
                        ELSE [rb EXCEPT !.paths = << >>, !.yielded = << >>]
  /\ UNCHANGED << build, feePermille, phase, hydrateIndex, lpMap, eventCache, queued,
                  pending, calls, mutex, emitted, received, handled, lost, expired,
                  history, app, activeProviders, subscribeIndex, broadcasts,
                  viewPairCalls, connections, timers, proc, wss, observers, sent >>

\* The route builder reading a file of one path group.
GeneratorInit == \E g \in PathGroups : InitOf("unchecked", FEE_PERMILLE, << g >>)

GeneratorNext == ProcessPathGroup

GeneratorSpec == GeneratorInit /\ [][GeneratorNext]_vars

\* The process is there: it has not exited and was not killed.
Alive == proc.state \in {"running", "cleaning"}

\* The life of the process: startup and its failures, the subscription
\* sockets and their reconnection, signals, cleanup and exit, with at most
\* MaxLifecycleLogs Sync logs.  The event queue beyond its concurrency and the
\* expiry of the cache are left to Spec.
LifecycleNext ==
  \/ OpenDatabase
  \/ FetchData
  \/ CloseDatabase
  \/ ConstructComponents
  \/ HydrateBatch
  \/ SubscribeBatch
  \/ InitializeFails
  \/ InitializeResolves
  \/ SignalHandled
  \/ SignalUnhandled
  \/ Exit
  \/ \E k \in 1..Len(connections) : SocketError(k)
  \/ \E k \in 1..Len(connections) : SocketCloseCalled(k)
  \/ \E k \in 1..Len(connections) : SocketClosed(k)
  \/ Reconnect
  \/ (Len(received) < MaxLifecycleLogs /\ OnLogStart)
  \/ (Alive /\ TaskSettledIdle)
  \/ (Alive /\ \E c \in 1..Len(calls) : EnterKnown(c))
  \/ (Alive /\ \E c \in 1..Len(calls) : EnterUnknown(c))
  \/ (Alive /\ \E c \in 1..Len(calls) : Leave(c))

LifecycleSpec == Init /\ [][LifecycleNext]_vars

\* The fan-out to the observers: startup, the observers' connections, and at
\* most MaxLifecycleLogs Sync logs with the evaluations they cause.
BroadcastNext ==
  \/ OpenDatabase
  \/ FetchData
  \/ CloseDatabase
  \/ ConstructComponents
  \/ HydrateBatch
  \/ SubscribeBatch
  \/ \E o \in Observers : ObserverConnects(o)
  \/ \E o \in Observers : ObserverBreaks(o)
  \/ \E o \in Observers : ObserverCloses(o)
  \/ \E o \in Observers : ObserverClosed(o)
  \/ (Len(received) < MaxLifecycleLogs /\ OnLogStart)
  \/ TaskSettledIdle
  \/ \E c \in 1..Len(calls) : EnterKnown(c)
  \/ \E c \in 1..Len(calls) : EnterUnknown(c)
  \/ \E c \in 1..Len(calls) : Leave(c)

BroadcastSpec == Init /\ [][BroadcastNext]_vars

\* ------------------------------------------------------------------ claims
Calls == 1..Len(calls)
Events == 1..Len(emitted)

\* The call is between its acquisition of the lock and its release.
InCriticalSection(c) == calls[c].pc \in {"acquired", "awaiting"}

\* The call has run its try block.
Entered(c) == calls[c].pc \in {"awaiting", "done", "failed"}

\* cyclesTouching(P) of the specification: the ids of the cycles with a step
\* through pool P, addresses compared without regard to case.
CyclesTouching(P) ==
  { id \in DOMAIN routeMap :
      \E k \in 1..Len(routeMap[id].routeInfo) :
        ToLowerCase(routeMap[id].routeInfo[k].lp) = P }

\* The position in history of the reserve write of call c (0: none yet).
WritePos(c) ==
  IF \E k \in 1..Len(history) : history[k] = [kind |-> "write", call |-> c]
  THEN CHOOSE k \in 1..Len(history) : history[k] = [kind |-> "write", call |-> c]
  ELSE 0

EventsOfCall(c) == { k \in Events : emitted[k].call = c }

HashOf(i) == received[i].transactionHash

\* C1: at most one call of updateReservesAndCalculateArbitrage is inside the
\* critical section; between the reserve write of a call and its last emission
\* no other call writes reserves (a write of another call that precedes an
\* emission of the call also precedes the call's own write); all events of one
\* call were priced on one and the same set of reserves.
C1_MutualExclusion ==
  /\ Cardinality({ c \in Calls : InCriticalSection(c) }) <= 1
  /\ \A j, k \in 1..Len(history) :
       (/\ j < k
        /\ history[j].kind = "write"
        /\ history[k].kind = "emit"
        /\ history[j].call # history[k].call)
       => j < WritePos(history[k].call)
  /\ \A e, f \in Events :
       emitted[e].call = emitted[f].call => emitted[e].seen = emitted[f].seen

\* C1 witness: a call holds the lock after emitting several events while
\* another call waits for the lock.
C1_Witness ==
  \E c, d \in Calls :
    /\ calls[c].pc = "awaiting"
    /\ Cardinality(EventsOfCall(c)) >= 2
    /\ calls[d].pc = "queued"

\* C2 (as claimed): once every received log has been handled, every received
\* Sync log has led to a call of updateReservesAndCalculateArbitrage with its
\* lowercased pool address and its two reserves, also when another log of the
\* same transaction hash was handled before it.
C2_EveryLogDelivered ==
  \A k \in 1..Len(handled) :
    LET log == received[handled[k].log]
    IN log.decodable =>
         \E c \in Calls :
           /\ calls[c].lpAddress = ToLowerCase(log.address)
           /\ calls[c].amount0 = log.reserve0
           /\ calls[c].amount1 = log.reserve1

\* C3 (as claimed): a handled log with an unseen hash leads to a call that
\* evaluates every cycle of cyclesTouching(P) exactly once; a log whose hash was
\* seen leads to no call.
C3_ExactlyOneEvaluation ==
  /\ \A k \in 1..Len(handled) :
       /\ (handled[k].passed /\ received[handled[k].log].decodable)
            => handled[k].call # 0
       /\ ~handled[k].passed => handled[k].call = 0
  /\ \A c \in Calls :
       (Entered(c) /\ calls[c].known) =>
         \A id \in CyclesTouching(calls[c].lpAddress) :
           Cardinality({ n \in 1..Len(calls[c].evaluated) :
                           calls[c].evaluated[n] = id }) = 1

\* The handled logs of hash h, and those among them that passed the cache check.
HandledOf(h) == { k \in 1..Len(handled) : HashOf(handled[k].log) = h }
PassedOf(h) == { k \in HandledOf(h) : handled[k].passed }

\* C4: the cache never holds more than its capacity; while a hash has neither
\* expired nor been evicted, exactly one of the handled logs that carry it
\* passes the check, the hash is in the cache as soon as one passed, and (the
\* logs being decodable Sync logs) exactly one call reaches the calculator and
\* every event caused by the hash comes from that one call.
C4_Deduplication ==
  /\ Len(eventCache) <= CacheMax
  /\ Cardinality(Range(eventCache)) = Len(eventCache)
  /\ \A h \in { HashOf(i) : i \in 1..Len(received) } \ lost :
       HandledOf(h) # {} =>
         /\ Cardinality(PassedOf(h)) = 1
         /\ h \in Range(eventCache)
         /\ (\A k \in HandledOf(h) : received[handled[k].log].decodable) =>
              /\ Cardinality({ c \in Calls : HashOf(calls[c].log) = h }) = 1
              /\ Cardinality({ emitted[e].call : e \in
                     { e \in Events : HashOf(calls[emitted[e].call].log) = h } }) <= 1

\* C4 witness: the same Sync log was handled twice while its hash stayed in the
\* cache, and the one call it caused has emitted its events.
C4_Witness ==
  \E k, n \in 1..Len(handled) :
    /\ k < n
    /\ received[handled[k].log] = received[handled[n].log]
    /\ received[handled[k].log].decodable
    /\ HashOf(handled[k].log) \notin lost
    /\ handled[k].call # 0
    /\ EventsOfCall(handled[k].call) # {}

\* The pairs <<reserve1, reserve2>> that pool a was given as a whole.
WrittenPairs(a) ==
  { << 0, 0 >>, << ChainReserves[a][1], ChainReserves[a][2] >> }
    \cup { << calls[c].amount0, calls[c].amount1 >> :
             c \in { c \in Calls : Entered(c) /\ calls[c].lpAddress = a } }

\* C5: the two reserves of a pool change together (no state shows one new and
\* one old reserve); a call emits nothing before its write; every event of a
\* call on pool P was priced with P's reserves equal to (r0, r1).
C5_AtomicWriteBeforePricing ==
  /\ \A a \in DOMAIN lpMap :
       << lpMap[a].reserve1, lpMap[a].reserve2 >> \in WrittenPairs(a)
  /\ \A c \in Calls : ~Entered(c) => EventsOfCall(c) = {}
  /\ \A e \in Events :
       LET c == emitted[e].call
       IN /\ WritePos(c) # 0
          /\ emitted[e].seen[calls[c].lpAddress]
               = << calls[c].amount0, calls[c].amount1 >>

\* C5 witness: a call that read poolInfo with other reserves than the ones it
\* was given has emitted an event priced on the new reserves.
C5_Witness ==
  \E e \in Events :
    LET c == emitted[e].call
    IN /\ << calls[c].poolInfo.reserve1, calls[c].poolInfo.reserve2 >>
            # << calls[c].amount0, calls[c].amount1 >>
       /\ calls[c].amount0 # calls[c].poolInfo.reserve1
       /\ calls[c].amount1 # calls[c].poolInfo.reserve2
       /\ emitted[e].seen[calls[c].lpAddress]
            = << calls[c].amount0, calls[c].amount1 >>

\* C6 (as claimed): a call for a known pool P that has run its try block has
\* emitted a RateUpdate for every cycle id of cyclesTouching(P), with that id
\* as pathId, whatever the sign of the rate, and for no other cycle.
C6_OneRateUpdatePerCycle ==
  \A c \in Calls :
    (Entered(c) /\ calls[c].known) =>
      /\ \A id \in CyclesTouching(calls[c].lpAddress) :
           \E e \in EventsOfCall(c) : emitted[e].pathId = id
      /\ \A e \in EventsOfCall(c) :
           emitted[e].pathId \in CyclesTouching(calls[c].lpAddress)

\* C7: every call writes reserves at most once and only one call at a time is
\* between acquire and release; the RateUpdates of one cycle are emitted in the
\* order in which the reserve writes that caused them were made.
C7_EmissionFollowsWriteOrder ==
  /\ \A i, j \in 1..Len(history) :
       (history[i].kind = "write" /\ history[j] = history[i]) => i = j
  /\ \A e, f \in Events :
       (/\ emitted[e].pathId = emitted[f].pathId
        /\ emitted[e].call # emitted[f].call
        /\ WritePos(emitted[e].call) < WritePos(emitted[f].call))
       => e < f

\* C7 witness: two calls wrote reserves one after the other and both emitted a
\* RateUpdate for the same cycle.
C7_Witness ==
  \E e, f \in Events :
    /\ emitted[e].pathId = emitted[f].pathId
    /\ emitted[e].call # emitted[f].call
    /\ 0 < WritePos(emitted[e].call)
    /\ WritePos(emitted[e].call) < WritePos(emitted[f].call)

\* C8: the lock is held exactly while a call is between acquire and release,
\* and exactly the calls that have not been granted the lock wait in its queue:
\* no exit of a call (normal, unknown pool, failure) leaves the lock held.
C8_LockReleasedOnEveryExit ==
  /\ mutex.locked <=> (\E c \in Calls : InCriticalSection(c))
  /\ Range(mutex.queue) = { c \in Calls : calls[c].pc = "queued" }
  /\ Len(mutex.queue) = Cardinality(Range(mutex.queue))

\* C8 witness: a call has failed, a call for an unknown pool has returned, and
\* a later call holds the lock.
C8_Witness ==
  \E c, d, n \in Calls :
    /\ calls[c].pc = "failed"
    /\ calls[d].pc = "done" /\ ~calls[d].known
    /\ c < n /\ d < n
    /\ InCriticalSection(n)

\* C9 (as claimed): a call for pool P that has run its try block has emitted a
\* RateUpdate for every cycle of cyclesTouching(P) or for none of them.
C9_AllOrNothing ==
  \A c \in Calls :
    (Entered(c) /\ calls[c].known) =>
      LET ids == { emitted[e].pathId : e \in EventsOfCall(c) }
      IN ids = {} \/ ids = CyclesTouching(calls[c].lpAddress)

\* C10 (as claimed): pricing a hop never raises an error, so no call of
\* updateReservesAndCalculateArbitrage fails.
C10_PricingNeverThrows ==
  \A c \in Calls : ~calls[c].rejected /\ calls[c].pc # "failed"

\* The cycle id has a step through a pool of lps with a zero reserve.
ThroughZeroPool(lps, id) ==
  \E k \in 1..Len(routeMap[id].routeInfo) :
    LET lp == routeMap[id].routeInfo[k].lp
    IN MapHas(lps, lp) /\ (lps[lp].reserve1 = 0 \/ lps[lp].reserve2 = 0)

\* C11 (as claimed): while a call holds the lock after pricing, every cycle it
\* evaluated that has a step through a pool with a zero reserve was published
\* with final amount 0, that is with rate -1.0 (-START_AMOUNT ether), whatever
\* the reserves and decimals of the other pools of the cycle.
C11_ZeroReserveRate ==
  \A c \in Calls :
    calls[c].pc = "awaiting" =>
      \A n \in 1..Len(calls[c].evaluated) :
        ThroughZeroPool(lpMap, calls[c].evaluated[n]) =>
          \E e \in EventsOfCall(c) :
            /\ emitted[e].pathId = calls[c].evaluated[n]
            /\ emitted[e].rate = -startAmount

\* The state of the pricing loop of a cycle before its k-th hop.
BeforeHop(b, lps, routeInfo, k) ==
  Hops(b, lps, SubSeq(routeInfo, 1, k - 1), 1,
       [currentAmount |-> startAmount,
        pathDescription |-> << START_CURRENCY >>,
        thrown |-> FALSE])

\* decimals(token) of the specification: 0 for a token the index does not hold.
DecimalsOf(token) ==
  IF MapHas(tokenMap, ToLowerCase(token)) THEN tokenMap[ToLowerCase(token)].decimals
  ELSE 0

\* The parts of the hop formula of the specification for input x, pool p and
\* step target: <<xFee, Rout, Rin'>>.
ClaimedHopParts(x, p, target) ==
  LET isToken1 == target = p.token1_address
      reserveIn == IF isToken1 THEN p.reserve2 ELSE p.reserve1
      reserveOut == IF isToken1 THEN p.reserve1 ELSE p.reserve2
      dIn == DecimalsOf(IF isToken1 THEN p.token2_address ELSE p.token1_address)
      dOut == DecimalsOf(IF isToken1 THEN p.token1_address ELSE p.token2_address)
      xScaled == (x * 10^dOut) \div 10^dIn
      RinScaled == (reserveIn * 10^dOut) \div 10^dIn
      xFee == (xScaled * (1000 - FEE_PERMILLE)) \div 1000
  IN << xFee, reserveOut, RinScaled >>

\* C12 (as claimed): while a call holds the lock after pricing, every hop it
\* priced through a pool with both reserves non-zero (and Rin' + xFee > 0, so
\* that the quotient exists) gave floor(xFee * Rout / (Rin' + xFee)).
C12_HopFormula ==
  \A c \in Calls :
    calls[c].pc = "awaiting" =>
      \A n \in 1..Len(calls[c].evaluated) :
        LET routeInfo == routeMap[calls[c].evaluated[n]].routeInfo
        IN \A k \in 1..Len(routeInfo) :
             LET st == BeforeHop(build, lpMap, routeInfo, k)
                 lp == routeInfo[k].lp
             IN (/\ ~st.thrown
                 /\ MapHas(lpMap, lp)
                 /\ lpMap[lp].reserve1 # 0
                 /\ lpMap[lp].reserve2 # 0) =>
                  LET parts == ClaimedHopParts(st.currentAmount, lpMap[lp],
                                               routeInfo[k].target)
                      after == Hop(build, lpMap, routeInfo[k], st)
                  IN parts[3] + parts[1] > 0 =>
                       /\ ~after.thrown
                       /\ after.currentAmount
                            = (parts[1] * parts[2]) \div (parts[3] + parts[1])

\* The address of call c is not a key of the pool index.
UnknownPool(c) == calls[c].lpAddress \notin DOMAIN InitialLPMap

\* C13: the step in which a call for an address that the pool index does not
\* hold runs with the lock is a no-op: the pool index keeps its keys and its
\* reserves, nothing is emitted or broadcast, the call ends without an error,
\* and the lock passes on (it is held afterwards exactly if another call is
\* inside the critical section).
C13_UnknownPoolNoOp ==
  [][\A c \in Calls :
       (UnknownPool(c) /\ calls[c].pc = "acquired") =>
         /\ calls'[c].pc \in {"acquired", "done"}
         /\ calls'[c].pc = "done" =>
              /\ lpMap' = lpMap
              /\ emitted' = emitted
              /\ broadcasts' = broadcasts
              /\ history' = history
              /\ ~calls'[c].rejected
              /\ calls'[c].evaluated = << >>
              /\ mutex'.locked <=>
                   \E d \in Calls \ {c} : calls'[d].pc \in {"acquired", "awaiting"}]_vars

\* C13 witness: a call for an unknown address has returned after a call for a
\* known pool wrote reserves and emitted events, and a later call waited for
\* the lock behind it and now holds it.
C13_Witness ==
  \E c, d, n \in Calls :
    /\ UnknownPool(c) /\ calls[c].pc = "done"
    /\ d < c /\ EventsOfCall(d) # {}
    /\ c < n /\ InCriticalSection(n)

\* The cycle id has a step through a pool that the pool index does not hold
\* (addresses compared without regard to case).
ReferencesUnknownPool(id) ==
  \E k \in 1..Len(routeMap[id].routeInfo) :
    ToLowerCase(routeMap[id].routeInfo[k].lp) \notin DOMAIN InitialLPMap

\* C14 (as claimed): no RateUpdate is ever emitted for a cycle with a step
\* through a pool that is absent from the pool index, while a call still
\* evaluates every other cycle listed for its pool.
C14_UnknownPoolCycleSkipped ==
  /\ \A e \in Events : ~ReferencesUnknownPool(emitted[e].pathId)
  /\ \A c \in Calls :
       (Entered(c) /\ calls[c].known
          /\ MapHas(lp2routeMapping, calls[c].poolInfo.address)) =>
         \A n \in 1..Len(lp2routeMapping[calls[c].poolInfo.address]) :
           \E m \in 1..Len(calls[c].evaluated) :
             calls[c].evaluated[m] = lp2routeMapping[calls[c].poolInfo.address][n]

\* The symbol of the specification for a step target: that of the token, or
\* "UNKNOWN" for a token that the token index does not hold.
SymbolOf(token) ==
  IF MapHas(tokenMap, ToLowerCase(token)) THEN tokenMap[ToLowerCase(token)].symbol
  ELSE "UNKNOWN"

\* C15 (as claimed): the pathDescription of every emitted RateUpdate has L + 1
\* symbols for a cycle of L steps: the base symbol, then for each step the
\* symbol of the step's target token.
C15_PathDescriptionLength ==
  \A e \in Events :
    LET routeInfo == routeMap[emitted[e].pathId].routeInfo
        pathDescription == emitted[e].pathDescription
    IN /\ Len(pathDescription) = Len(routeInfo) + 1
       /\ pathDescription[1] = START_CURRENCY
       /\ \A k \in 1..Len(routeInfo) :
            pathDescription[k + 1] = SymbolOf(routeInfo[k].target)

\* load() of the specification has completed: DatabaseManager.initialize has
\* read the catalog.
Loaded == phase \notin {"new", "opened"}

\* C16 (as claimed): once load() has completed, every pool address that a step
\* of a cycle names, and every key of lp2routeMapping, is a key of the pool
\* index (addresses compared without regard to case): load() never completes
\* on a catalog with a route through a pool that LPInfo does not hold.
C16_LoadChecksReferences ==
  Loaded =>
    /\ \A id \in DOMAIN routeMap :
         \A k \in 1..Len(routeMap[id].routeInfo) :
           ToLowerCase(routeMap[id].routeInfo[k].lp) \in DOMAIN lpMap
    /\ \A lp \in DOMAIN lp2routeMapping : ToLowerCase(lp) \in DOMAIN lpMap

\* C17 (as claimed): addresses are compared without regard to case.  A call
\* for pool P that has run its try block has evaluated every cycle whose path
\* names P in any letter case; and in every emitted RateUpdate each step whose
\* lp names a pool of the index in any letter case was resolved and priced
\* (it added its symbol to the description).
C17_CaseInsensitive ==
  /\ \A c \in Calls :
       (Entered(c) /\ calls[c].known) =>
         \A id \in CyclesTouching(calls[c].lpAddress) :
           \E n \in 1..Len(calls[c].evaluated) : calls[c].evaluated[n] = id
  /\ \A e \in Events :
       LET routeInfo == routeMap[emitted[e].pathId].routeInfo
       IN (\A k \in 1..Len(routeInfo) :
             ToLowerCase(routeInfo[k].lp) \in DOMAIN InitialLPMap)
          => Len(emitted[e].pathDescription) = Len(routeInfo) + 1

\* The batches of the first n calls of viewPair, one after the other.
RECURSIVE BatchesRequested(_)
BatchesRequested(n) ==
  IF n = 0 THEN << >>
  ELSE BatchesRequested(n - 1) \o viewPairCalls[n].batch

\* fetchInitialPoolReserves has returned.
Hydrated == phase \in {"subscribing", "subscribed"}

\* No call of updateReservesAndCalculateArbitrage has written pool a.
NotWritten(a) == \A c \in Calls : ~(Entered(c) /\ calls[c].lpAddress = a)

\* C18: the calls of viewPair made so far ask for consecutive slices of
\* pools() of 1..BATCH_SIZE addresses; once hydration has returned the slices
\* make up pools() exactly, so every pool is in exactly one batch and every
\* batch was requested once; and a pool that no Sync update has written holds
\* the pair (result[2j], result[2j+1]) of its position j in its batch when the
\* batch was applied in full, and that pair or (0, 0) otherwise.
C18_HydrationBatches ==
  /\ \A n \in 1..Len(viewPairCalls) :
       /\ Len(viewPairCalls[n].batch) \in 1..BATCH_SIZE
       /\ n < Len(viewPairCalls) => Len(viewPairCalls[n].batch) = BATCH_SIZE
  /\ BatchesRequested(Len(viewPairCalls))
       = SubSeq(poolAddresses, 1, Len(BatchesRequested(Len(viewPairCalls))))
  /\ Hydrated =>
       /\ BatchesRequested(Len(viewPairCalls)) = poolAddresses
       /\ DOMAIN lpMap = Range(poolAddresses)
       /\ \A n \in 1..Len(viewPairCalls) :
            LET batch == viewPairCalls[n].batch
                result == ViewPair(batch)
            IN \A j \in 1..Len(batch) :
                 NotWritten(batch[j]) =>
                   LET pair == << lpMap[batch[j]].reserve1, lpMap[batch[j]].reserve2 >>
                   IN /\ pair \in { << 0, 0 >>, << result[2 * j - 1], result[2 * j] >> }
                      /\ viewPairCalls[n].applied = Len(batch)
                           => pair = << result[2 * j - 1], result[2 * j] >>

\* C18 witness: hydration has returned after more than one batch, one batch
\* applied in full and one not at all, and the pools show it.
C18_Witness ==
  /\ Hydrated
  /\ Len(viewPairCalls) >= 2
  /\ \E n, m \in 1..Len(viewPairCalls) :
       /\ viewPairCalls[n].applied = Len(viewPairCalls[n].batch)
       /\ lpMap[viewPairCalls[n].batch[1]].reserve1 # 0
       /\ viewPairCalls[m].applied = 0
       /\ lpMap[viewPairCalls[m].batch[1]].reserve1 = 0

\* C19 (as claimed): when the hydration of a batch fails (viewPair throws, or
\* its result holds fewer than 2N values and cannot be applied), every pool of
\* the batch that no Sync update has written keeps reserves (0, 0); and
\* hydration goes on: once it has returned every batch has been requested.
C19_FailedBatchKeepsZero ==
  /\ \A n \in 1..Len(viewPairCalls) :
       LET batch == viewPairCalls[n].batch
       IN viewPairCalls[n].applied < Len(batch) =>
            \A j \in 1..Len(batch) :
              NotWritten(batch[j]) =>
                /\ lpMap[batch[j]].reserve1 = 0
                /\ lpMap[batch[j]].reserve2 = 0
  /\ Hydrated => BatchesRequested(Len(viewPairCalls)) = poolAddresses

\* C20: startup order.  No other component exists before the catalog is
\* loaded and its connection closed; a subscription connection exists only
\* after the Broadcaster is made and wired and after every batch of the
\* hydration was requested and handled; before hydration has returned no Sync
\* log is received or dispatched and no RateUpdate is emitted; and every
\* emitted RateUpdate reached WebSocketManager.broadcast, in order.
C20_StartupOrder ==
  /\ (app.arbitrageCalculator \/ app.webSocketManager \/ app.eventSubscriber
        \/ app.listeners > 0)
       => (app.dbManager /\ app.db = "closed" /\ Loaded)
  /\ app.db = "closed" => Loaded
  /\ app.eventSubscriber => (app.arbitrageCalculator /\ app.listeners > 0)
  /\ app.listeners > 0 => app.webSocketManager
  /\ activeProviders # << >> =>
       /\ app.eventSubscriber
       /\ Hydrated
       /\ BatchesRequested(Len(viewPairCalls)) = poolAddresses
  /\ ~Hydrated =>
       /\ received = << >> /\ handled = << >> /\ calls = << >>
       /\ emitted = << >> /\ broadcasts = << >>
  /\ Len(broadcasts) = Len(emitted)
  /\ \A e \in Events :
       /\ broadcasts[e].pathId = emitted[e].pathId
       /\ broadcasts[e].pathDescription = emitted[e].pathDescription
       /\ broadcasts[e].rate = emitted[e].rate

\* C20 witness: every subscription connection is open and a Sync log of a
\* hydrated pool has led to RateUpdates that were broadcast.
C20_Witness ==
  /\ phase = "subscribed"
  /\ Len(activeProviders) >= 2
  /\ emitted # << >>
  /\ Len(broadcasts) = Len(emitted)
  /\ \E n \in 1..Len(viewPairCalls) :
       viewPairCalls[n].applied = Len(viewPairCalls[n].batch)

\* The reconnection of the addresses of provider k is scheduled, or a provider
\* was made for them after provider k.
ReconnectionPending(k) ==
  \E t \in 1..Len(timers) : timers[t] = connections[k].addresses

Replaced(k) ==
  \E j \in (k + 1)..Len(connections) :
    connections[j].addresses = connections[k].addresses

\* C21 (as claimed): while the process runs, every provider whose socket has
\* reported a close or an error has the reconnection of exactly its addresses
\* scheduled or already made, and every provider whose socket has reported
\* nothing is still open, listening and tracked.
C21_ReconnectsAfterCloseOrError ==
  proc.state = "running" =>
    \A k \in 1..Len(connections) :
      /\ connections[k].notifications > 0 =>
           (ReconnectionPending(k) \/ Replaced(k))
      /\ connections[k].notifications = 0 =>
           (connections[k].open /\ connections[k].listening /\ connections[k].tracked)

\* The providers made for an address set, those of them that are tracked and
\* listening, those whose socket has reported a close or an error, and the
\* reconnections of the address set that are scheduled.
MadeFor(addresses) ==
  { k \in 1..Len(connections) : connections[k].addresses = addresses }

SubscribedFor(addresses) ==
  { k \in MadeFor(addresses) : connections[k].tracked /\ connections[k].listening }

NotifiedFor(addresses) ==
  { k \in MadeFor(addresses) : connections[k].notifications > 0 }

ScheduledFor(addresses) == { t \in 1..Len(timers) : timers[t] = addresses }

\* C22 (as claimed): while the process runs, each batch has at most one provider
\* that is tracked and listening; a provider that was replaced is neither
\* tracked nor listening; and the replacements of a batch, made or scheduled,
\* are at most one for each of its providers that reported a close or an error.
C22_OneConnectionPerBatch ==
  proc.state = "running" =>
    \A i \in 1..Len(connections) :
      LET a == connections[i].addresses
      IN /\ Cardinality(SubscribedFor(a)) <= 1
         /\ Replaced(i) => (~connections[i].tracked /\ ~connections[i].listening)
         /\ Cardinality(MadeFor(a)) + Cardinality(ScheduledFor(a))
              <= 1 + Cardinality(NotifiedFor(a))

\* EventSubscriber.shutdown() has run.
ShutdownRan == "eventSubscriber.shutdown" \in Range(proc.ran)

\* C23 (as claimed): once shutdown() has run no reconnection is scheduled, no
\* provider is tracked or listening, no socket is open, and no provider was
\* made after the shutdown.
C23_ShutdownCancelsAll ==
  ShutdownRan =>
    /\ timers = << >>
    /\ \A k \in 1..Len(connections) :
         /\ ~connections[k].tracked
         /\ ~connections[k].listening
         /\ ~connections[k].open
         /\ ~connections[k].afterShutdown

\* The place of a callback among those that cleanup ran (0: it did not run).
PlaceIn(ran, cb) ==
  IF cb \in Range(ran) THEN CHOOSE i \in 1..Len(ran) : ran[i] = cb ELSE 0

\* C24 (as claimed): when a signal has led to the close of the WebSocket
\* server, the subscriber was shut down before the server was closed, and no
\* call of the calculator held the lock when the server was closed.
C24_ShutdownOrder ==
  (wss = "closed" /\ ~proc.failed) =>
    /\ ShutdownRan
    /\ PlaceIn(proc.ran, "eventSubscriber.shutdown")
         < PlaceIn(proc.ran, "webSocketManager.close")
    /\ ~proc.lockedAtClose

\* cleanup has run all there was to run: every callback that was pushed; the
\* WebSocket server, if it was made, is closed; every provider was destroyed
\* and is neither tracked nor listening.
CleanedUp ==
  /\ proc.ran = app.cleanupCallbacks
  /\ app.webSocketManager => wss = "closed"
  /\ app.eventSubscriber => ShutdownRan
  /\ activeProviders = << >>
  /\ \A k \in 1..Len(connections) :
       /\ connections[k].destroyed
       /\ ~connections[k].tracked
       /\ ~connections[k].listening

\* C25: a failure of initialize() at any of its steps leads, in the step of
\* the failure, to cleanup; the process exits only through process.exit after
\* a cleanup that has run all there was to run, with code 1 exactly when
\* initialize() failed and with code 0 after a handled signal.
C25_CleanupOnEveryExit ==
  /\ phase = "failed" <=> proc.failed
  /\ proc.failed => proc.state \in {"cleaning", "exited"}
  /\ proc.state \in {"cleaning", "exited"} => CleanedUp
  /\ proc.state = "exited" =>
       /\ proc.failed => proc.exitCode = 1
       /\ ~proc.failed => (proc.exitCode = 0 /\ proc.signalHandlers)
  /\ proc.state # "exited" => proc.exitCode = NoExit

\* C25 witness: the process has exited with code 1 after the subscription of
\* the second batch failed; the provider of the first batch was destroyed and
\* the WebSocket server closed.
C25_Witness ==
  /\ proc.state = "exited"
  /\ proc.exitCode = 1
  /\ wss = "closed"
  /\ Len(connections) = 1
  /\ connections[1].destroyed

\* The calls of updateReservesAndCalculateArbitrage that hold the lock or wait
\* for it.
InFlight == { c \in Calls : calls[c].pc \notin {"done", "failed"} }

\* C26 (as claimed): the queue runs at most Concurrency tasks at a time, and at
\* most Concurrency calls of updateReservesAndCalculateArbitrage hold the lock
\* or wait for it.
C26_BoundedDispatch ==
  /\ pending <= Concurrency
  /\ Cardinality(InFlight) <= Concurrency

\* JSON.parse(data)[key], as an observer reads the message.
Member(data, key) ==
  LET k == CHOOSE i \in 1..Len(data) : data[i][1] = key IN data[k][2]

\* C27: every emitted RateUpdate is broadcast as one message with the four
\* members type = "arbitrageRateUpdated", pathId, pathDescription and rate, the
\* last three with the emitted values, and send is called for it on exactly
\* the observers whose socket has readyState OPEN at that moment.
C27_BroadcastToOpenObservers ==
  /\ Len(sent) = Len(emitted)
  /\ \A e \in Events :
       /\ { sent[e].data[i][1] : i \in 1..Len(sent[e].data) }
            = {"type", "pathId", "pathDescription", "rate"}
       /\ Len(sent[e].data) = 4
       /\ Member(sent[e].data, "type") = "arbitrageRateUpdated"
       /\ Member(sent[e].data, "pathId") = emitted[e].pathId
       /\ Member(sent[e].data, "pathDescription") = emitted[e].pathDescription
       /\ Member(sent[e].data, "rate") = emitted[e].rate
       /\ sent[e].to = { o \in Observers : ReadyState(sent[e].states[o]) = "OPEN" }

\* C27 witness: a RateUpdate was sent to an observer that was open while the
\* socket of another observer was closing; the closing one was passed over.
C27_Witness ==
  \E e \in Events :
    \E o, q \in Observers :
      /\ sent[e].states[o] = "OPEN"
      /\ o \in sent[e].to
      /\ sent[e].states[q] = "CLOSING"
      /\ q \notin sent[e].to

\* C28 (as claimed): when the send of a RateUpdate to an observer fails, send
\* is still called for every other observer that is open; the call that
\* emitted the RateUpdate fails only if the pricing of one of its cycles threw;
\* and the observer is in wss.clients for no later broadcast.
C28_SendFailureIsolated ==
  \A e \in Events :
    sent[e].failed # {} =>
      /\ \A q \in Observers :
           ReadyState(sent[e].states[q]) = "OPEN" => q \in sent[e].to
      /\ LET c == emitted[e].call
         IN calls[c].pc = "failed" =>
              Len(calls[c].evaluated) > Cardinality(EventsOfCall(c))
      /\ \A f \in Events :
           f > e => sent[e].failed \cap Clients(sent[f].states) = {}

\* C29 (as claimed): a call that has entered its critical section does not
\* yield to another task: while a call stands inside the try block with the
\* lock held, no handler of a Sync log runs and no other call is made before
\* the call has released the lock.
C29_NoSuspensionUnderLock ==
  [][ \A c \in Calls :
        (calls[c].pc = "awaiting" /\ calls'[c].pc = "awaiting")
          => (handled' = handled /\ Len(calls') = Len(calls)) ]_vars

\* The payloads {pathId, pathDescription, rate} of the events of call c, in
\* the order of their emission.
PayloadsOfCall(em, c) ==
  LET own == SelectSeq(em, LAMBDA e : e.call = c)
  IN [k \in 1..Len(own) |->
        [pathId |-> own[k].pathId, pathDescription |-> own[k].pathDescription,
         rate |-> own[k].rate]]

\* The call that wrote reserves to the Store last (0: no call has).
LastWriter ==
  LET writes == SelectSeq(history, LAMBDA h : h.kind = "write")
  IN IF writes = << >> THEN 0 ELSE writes[Len(writes)].call

\* Calls c and d apply the same update (poolAddr, r0, r1).
SameUpdate(c, d) ==
  /\ calls[c].lpAddress = calls[d].lpAddress
  /\ calls[c].amount0 = calls[d].amount0
  /\ calls[c].amount1 = calls[d].amount1

\* C30: when a call applies the update that the last call to write the Store
\* applied, with no other write in between, its step in the critical section
\* leaves the Store as the first call left it and emits, for the same cycles
\* in the same order, payloads with the same pathId, pathDescription and rate
\* as the first call emitted.
C30_SameUpdateTwice ==
  [][ \A d \in Calls :
        ( /\ calls[d].pc = "acquired"
          /\ calls'[d].pc = "awaiting"
          /\ LastWriter # 0
          /\ SameUpdate(LastWriter, d) )
        => /\ lpMap' = lpMap
           /\ calls'[d].evaluated = calls[LastWriter].evaluated
           /\ PayloadsOfCall(emitted', d) = PayloadsOfCall(emitted, LastWriter) ]_vars

\* C30 witness: two calls in a row applied the same update to a known pool,
\* both went through the critical section and both emitted events.
C30_Witness ==
  LET writes == SelectSeq(history, LAMBDA h : h.kind = "write")
  IN /\ Len(writes) >= 2
     /\ LET c == writes[Len(writes) - 1].call
            d == writes[Len(writes)].call
        IN /\ c # d
           /\ SameUpdate(c, d)
           /\ PayloadsOfCall(emitted, c) # << >>
           /\ PayloadsOfCall(emitted, d) = PayloadsOfCall(emitted, c)

\* The events of cycle r2 (WETH -> DAI -> WETH over pool 0xp3 alone) that were
\* priced while the two reserves of the pool were equal and not zero.
SymmetricEvents ==
  { k \in Events :
      /\ emitted[k].pathId = "r2"
      /\ emitted[k].seen["0xp3"][1] = emitted[k].seen["0xp3"][2]
      /\ emitted[k].seen["0xp3"][1] # 0 }

\* What the integer divisions of a cycle can take from its final amount: each
\* hop ends in one division that drops less than one unit.
Truncation(id) == Len(routeMap[id].routeInfo)

C31_NegativeWithFee ==
  \A k \in SymmetricEvents : feePermille = FEE_PERMILLE => emitted[k].rate < 0

\* The rate of the symmetric cycle without a fee is never positive.
C31_NeverPositive ==
  \A k \in SymmetricEvents : emitted[k].rate <= 0

\* The entries of handled whose log could not be decoded.
Undecodable == { k \in 1..Len(handled) : ~received[handled[k].log].decodable }

WithoutReserves(pool) == [pool EXCEPT !.reserve1 = 0, !.reserve2 = 0]

\* The step is the write of call d: it leaves "acquired" for the try block.
WritesIn(d) == calls[d].pc = "acquired" /\ calls'[d].pc = "awaiting"

\* C33: once the catalog is loaded, only reserves change in the pool index.
\* Every step keeps its key set and the address and token addresses of every
\* pool as load() left them; the pool index changes only in a hydration step
\* or in the write of a call; and the write of a call for pool P leaves the
\* entry of every other pool as it was.  (The token, cycle and poolToCycles
\* indexes have no writer after load() and are definitions of the model.)
C33_OnlyReservesMutable ==
  [][ phase \notin {"new", "opened"} =>
        /\ DOMAIN lpMap' = DOMAIN InitialLPMap
        /\ \A a \in DOMAIN lpMap' : WithoutReserves(lpMap'[a]) = InitialLPMap[a]
        /\ lpMap' # lpMap => (phase = "hydrating" \/ \E d \in Calls : WritesIn(d))
        /\ \A d \in Calls :
             WritesIn(d) =>
               \A a \in DOMAIN lpMap \ {calls[d].lpAddress} : lpMap'[a] = lpMap[a] ]_vars

\* C33 witness: hydration has written reserves and a call has written others
\* over them.
C33_Witness ==
  /\ \E v \in 1..Len(viewPairCalls) : viewPairCalls[v].applied > 0
  /\ \E d \in Calls :
       /\ calls[d].pc = "done"
       /\ calls[d].known
       /\ lpMap[calls[d].lpAddress].reserve1 = calls[d].amount0
       /\ lpMap[calls[d].lpAddress].reserve2 = calls[d].amount1
       /\ << calls[d].amount0, calls[d].amount1 >> # ChainReserves[calls[d].lpAddress]
       /\ calls[d].poolInfo.reserve1 # 0

\* The pools named by the liquidity lists of paths.
PoolsOf(paths) ==
  UNION { { paths[i].liquidities[k] : k \in 1..Len(paths[i].liquidities) } :
          i \in 1..Len(paths) }

\* The picks of one pool from the list of each item, in item order, that pick
\* no pool twice.
DistinctPicks(paths) ==
  { f \in [1..Len(paths) -> PoolsOf(paths)] :
      /\ \A i \in 1..Len(paths) :
           \E k \in 1..Len(paths[i].liquidities) : paths[i].liquidities[k] = f[i]
      /\ \A i \in 1..Len(paths) : \A j \in 1..Len(paths) : f[i] = f[j] => i = j }

\* The route of a pick: step i pairs the token of item i with the pool picked.
RouteOfPick(paths, f) == [i \in 1..Len(paths) |-> << paths[i].token, << f[i] >> >>]

\* The routes yielded for paths are the routes of its distinct picks, each
\* yielded once, when 2 <= n <= 5, and none otherwise.
YieldsExactly(paths, yielded) ==
  IF Len(paths) < 2 \/ Len(paths) > 5 THEN yielded = << >>
  ELSE /\ \A k \in 1..Len(yielded) :
            \E f \in DistinctPicks(paths) : yielded[k] = RouteOfPick(paths, f)
       /\ \A f \in DistinctPicks(paths) :
            Cardinality({ k \in 1..Len(yielded) : yielded[k] = RouteOfPick(paths, f) }) = 1

\* C34 (as claimed): for the n items that a path group hands to the route
\* generator, the generator yields exactly the routes that pick one pool from
\* the list of each item, in item order, with n pairwise different pools and
\* 2 <= n <= 5: each such route once, no other route, and none for other n.
C34_RoutesOfGroup == YieldsExactly(routeBuilder.paths, routeBuilder.yielded)

\* No liquidity list of paths names a pool twice.
NoRepeatedPool(paths) ==
  \A i \in 1..Len(paths) : UniqueLPs(paths[i].liquidities)

\* The claim of C34 for the groups none of whose lists names a pool twice.
C34_RoutesOfGroupWithoutRepeats ==
  NoRepeatedPool(routeBuilder.paths) =>
    YieldsExactly(routeBuilder.paths, routeBuilder.yielded)

\* Every route yielded is the route of a distinct pick, for 2 <= n <= 5.
C34_OnlyRoutesOfPicks ==
  /\ \A k \in 1..Len(routeBuilder.yielded) :
       \E f \in DistinctPicks(routeBuilder.paths) :
         routeBuilder.yielded[k] = RouteOfPick(routeBuilder.paths, f)
  /\ routeBuilder.yielded # << >> =>
       (Len(routeBuilder.paths) >= 2 /\ Len(routeBuilder.paths) <= 5)

\* The pool index with the reserves that a pricing run read.
StoreSeen(seen) ==
  [a \in DOMAIN seen |->
     [InitialLPMap[a] EXCEPT !.reserve1 = seen[a][1], !.reserve2 = seen[a][2]]]

\* The cycle id priced on its own from START_AMOUNT with the reserves seen.
PricedAlone(id, seen) ==
  BeforeHop(build, StoreSeen(seen), routeMap[id].routeInfo,
            Len(routeMap[id].routeInfo) + 1)

\* C35: every RateUpdate carries the rate and the description of its cycle
\* priced on its own: from START_AMOUNT, over the steps of the cycle alone and
\* the reserves at the time, whatever cycles the same call priced before it and
\* whatever amount they left in the variable the cycles share.
C35_CyclesIndependent ==
  \A k \in Events :
    LET alone == PricedAlone(emitted[k].pathId, emitted[k].seen)
    IN /\ ~alone.thrown
       /\ emitted[k].rate = alone.currentAmount - startAmount
       /\ emitted[k].pathDescription = alone.pathDescription

\* C35 witness: one call priced two cycles one after the other; the first
\* left an amount other than the start amount in the shared variable, and
\* the second was published with another rate.
C35_Witness ==
  \E c \in Calls :
    \E j \in EventsOfCall(c) : \E k \in EventsOfCall(c) :
      /\ k = j + 1
      /\ emitted[j].pathId # emitted[k].pathId
      /\ emitted[j].rate # 0
      /\ emitted[k].rate # emitted[j].rate

\* The process is gone: it has exited or a signal has terminated it.
Gone == proc.state \in {"exited", "killed"}

\* C36 (as claimed): whenever the process is gone, after a SIGINT or SIGTERM
\* received at any point of its life, cleanup() has run before: the WebSocket
\* server, if it was started, is closed and every connection opened so far was
\* destroyed.
C36_SignalLeadsToCleanup ==
  Gone =>
    /\ wss # "listening"
    /\ \A k \in 1..Len(connections) : connections[k].destroyed

\* The part of C36 about a signal received after initialize() has resolved.
C36_HandledSignalLeadsToCleanup ==
  (Gone /\ proc.signalHandlers) =>
    /\ wss # "listening"
    /\ \A k \in 1..Len(connections) : connections[k].destroyed

====
